---- MODULE Spec2Model ----
(***************************************************************************)
(* Model of the Wildberries category harvester (WBProductFreqBot).        *)
(*                                                                         *)
(* Three programs of the repository are modelled:                          *)
(*   - the service-split bot (src/src/...): BotHandlers.handle_text        *)
(*     driving WildberriesParser.parse_category on the asyncio event loop; *)
(*   - the pure catalog resolution find_category_by_url;                   *)
(*   - the standalone script src/wildberries.py.                           *)
(*                                                                         *)
(* Strings are modelled as sequences of tokens.  A URL is a sequence over  *)
(* UrlTokens, where the token HOST stands for the literal text             *)
(* 'https://www.wildberries.ru'; no other token contains that text, so     *)
(* str.split(HOST) cuts exactly at the HOST tokens.                        *)
(***************************************************************************)
EXTENDS Integers, Sequences, FiniteSets, TLC

\* ------------------------------------------------------------------ bounds
MaxUrlLen == 3

\* Named products on a listing page, runs started, and failed calls, when
\* the requesters take turns.
MaxNames == 2
MaxRuns == 2
MaxFaults == 2
\* Named products on a listing page and failed calls when runs interleave.
MaxNamesConcurrent == 1
MaxFaultsConcurrent == 1
\* The standalone script: named products on a page, calls of
\* parse_category, failed calls, and the pages of a category that are
\* visited (the script's own MAX_PAGES is 50).
MaxNamesStandalone == 1
MaxRunsStandalone == 2
MaxFaultsStandalone == 3
MaxPagesStandalone == 2
\* The rows handed to a flush on its own.
MaxFlushRows == 2
\* The keywords of a statistics response handed to EvirmaClient on its own.
MaxKeywords == 2
\* app.py: the reports started, the /subscribe and /unsubscribe commands
\* handled, and the failed calls (network, disk, Telegram).
MaxReports == 2
MaxSubscriptionChanges == 2
MaxFaultsApp == 1
\* main.py: the reports started and the failed calls.
MaxRunsMain == 2
MaxFaultsMain == 3
MaxNamesMain == 1
\* FileService: the flushes that write a report file, and the seconds of
\* the clock their file names carry.
MaxDeleteFlushes == 3
MaxSeconds == 2

\* ---------------------------------------------------- program constants
\* settings.MAX_PAGES
MAX_PAGES == 2
\* @retry(Exception, tries=3, delay=2) on scrape_wb_page and
\* query_evirma_api of the standalone script
RETRY_TRIES == 3

\* ------------------------------------------------------- python values
\* None where a dict, a list or an exception object may stand instead, and
\* None where a string may stand instead (TLC compares like with like).
None == [py |-> "None"]
NoneStr == "None"

HOST == "https://www.wildberries.ru"
OTHERHOST == "https://example.com"

Range(s) == {s[i] : i \in DOMAIN s}

\* ------------------------------------------------------- catalog trees
\* A JSON value of the catalog is a record with a field py that tells a
\* dict from a list; the JSON keys of a dict are the other fields of the
\* record, so that a missing key is a missing field.
ShoesNode ==
    [py |-> "dict", name |-> "Shoes", url |-> <<"/catalog/shoes">>,
     shard |-> "shoes-shard", query |-> "q=1"]

HatsNode ==
    [py |-> "dict", name |-> "Hats", url |-> <<"/catalog/hats">>,
     shard |-> "hats-shard", query |-> "q=2"]

\* Scenario A of the specification: the root node has no url field.
ScenarioATree ==
    [py |-> "dict", name |-> "Root", childs |-> <<ShoesNode>>]

\* The same tree with a url on the root, as every node of the real
\* catalog has one.
RootedTree ==
    [py |-> "dict", name |-> "Root", url |-> <<"/">>, childs |-> <<ShoesNode>>]

\* The shape of the real catalog: a JSON array of nodes; the parent has no
\* shard and no query, and one path occurs twice.
ListTree ==
    [py |-> "list",
     items |-> << [py |-> "dict", name |-> "Clothes", url |-> <<"/catalog/clothes">>,
                   childs |-> <<ShoesNode, HatsNode>>],
                  [py |-> "dict", name |-> "Shoes2", url |-> <<"/catalog/shoes">>,
                   shard |-> "again", query |-> "q=3"] >>]

ResolveCatalogs == {ScenarioATree, RootedTree, ListTree}

UrlTokens == {HOST, OTHERHOST, "/catalog/shoes", "/catalog/hats", "/", "?x=1", "x"}

RECURSIVE SeqsUpTo(_, _)
SeqsUpTo(S, n) ==
    IF n = 0 THEN {<<>>}
    ELSE LET shorter == SeqsUpTo(S, n - 1)
         IN  shorter \cup {Append(s, x) : s \in shorter, x \in S}

ResolveUrls == SeqsUpTo(UrlTokens, MaxUrlLen)

\* --------------------------------------------- extract_category_data
\* dict.get(key) of a string field: the value, or None when the key is
\* missing.
Get(node, key) == IF key \in DOMAIN node THEN node[key] ELSE NoneStr

\* node['name'] or node['url'] raises KeyError on a dict that lacks it; the
\* exception leaves process_node and extract_category_data.
RECURSIVE RaisesKeyError(_)
RaisesKeyError(node) ==
    IF node.py = "dict"
    THEN \/ "name" \notin DOMAIN node
         \/ "url" \notin DOMAIN node
         \/ /\ "childs" \in DOMAIN node
            /\ \E i \in DOMAIN node.childs : RaisesKeyError(node.childs[i])
    ELSE IF node.py = "list"
    THEN \E i \in DOMAIN node.items : RaisesKeyError(node.items[i])
    ELSE FALSE

RECURSIVE process_node(_)
RECURSIVE process_nodes(_)
process_nodes(nodes) ==
    IF nodes = <<>> THEN <<>>
    ELSE process_node(Head(nodes)) \o process_nodes(Tail(nodes))

\* Pre-order: the node, then its childs.
process_node(node) ==
    IF node.py = "dict"
    THEN << [name |-> node.name, shard |-> Get(node, "shard"),
             url |-> node.url, query |-> Get(node, "query")] >>
         \o (IF "childs" \in DOMAIN node THEN process_nodes(node.childs) ELSE <<>>)
    ELSE IF node.py = "list"
    THEN process_nodes(node.items)
    ELSE <<>>

\* A call's outcome: a returned value or a raised exception.
Returned(v) == [kind |-> "return", val |-> v]
Raised(e) == [kind |-> "raise", exc |-> e]

\* Exception objects.
KeyError == [type |-> "KeyError"]
AttributeError == [type |-> "AttributeError"]
ConnectionError == [type |-> "ConnectionError"]
JSONDecodeError == [type |-> "JSONDecodeError"]
TelegramAPIError == [type |-> "TelegramAPIError"]
HTTPError(status) == [type |-> "HTTPError", status |-> status]

extract_category_data(catalog) ==
    IF RaisesKeyError(catalog) THEN Raised(KeyError)
    ELSE Returned(process_node(catalog))

\* ---------------------------------------------- find_category_by_url
\* str.split(sep)[-1]: the text after the last occurrence of sep, the
\* whole text when sep does not occur.
SplitLast(url, sep) ==
    LET hits == {i \in DOMAIN url : url[i] = sep}
    IN  IF hits = {} THEN url
        ELSE SubSeq(url, (CHOOSE i \in hits : \A j \in hits : i >= j) + 1, Len(url))

\* A variant that takes split(...)[0], the text before the first
\* occurrence of the host.
relative_url_first_piece(url) ==
    LET hits == {i \in DOMAIN url : url[i] = HOST}
    IN  IF hits = {} THEN url
        ELSE SubSeq(url, 1, (CHOOSE i \in hits : \A j \in hits : i <= j) - 1)

relative_url(url) == SplitLast(url, HOST)

\* The first category, in list order, whose url equals the relative url.
FirstMatch(categories, rel) ==
    LET hits == {i \in DOMAIN categories : categories[i].url = rel}
    IN  IF hits = {} THEN None
        ELSE categories[CHOOSE i \in hits : \A j \in hits : i <= j]

\* find_category_by_url once the catalog is in catalog_data.
find_in_catalog(catalog, url) ==
    LET categories == extract_category_data(catalog)
    IN  IF categories.kind = "raise" THEN categories
        ELSE Returned(FirstMatch(categories.val, relative_url(url)))

\* ------------------------------------------------- the bot's inputs
Users == {"u1", "u2"}
Tasks == {1, 2}
NoTask == 0

\* The catalog the endpoint serves to the bot: a JSON array; the parent
\* node has neither shard nor query.
BotCatalog ==
    [py |-> "list",
     items |-> << [py |-> "dict", name |-> "Dom", url |-> <<"/catalog/dom-i-dacha">>,
                   childs |-> << [py |-> "dict", name |-> "Aksessuary",
                                  url |-> <<"/catalog/dom-i-dacha/vannaya/aksessuary">>,
                                  shard |-> "home1", query |-> "cat=1"],
                                 [py |-> "dict", name |-> "Mebel",
                                  url |-> <<"/catalog/dom-i-dacha/vannaya/mebel">>,
                                  shard |-> "home2", query |-> "cat=2"] >>] >>]

\* The path tokens of the form /catalog/<a>/<b>/<c>.
ThreeSegmentPaths ==
    {"/catalog/dom-i-dacha/vannaya/aksessuary",
     "/catalog/dom-i-dacha/vannaya/mebel",
     "/catalog/dom-i-dacha/vannaya/polki"}

\* A variant that accepts every text.
url_pattern_matches_any(text) == TRUE

\* re.match(r'^https://www\.wildberries\.ru/catalog/[\w-]+/[\w-]+/[\w-]+$', url)
url_pattern_matches(text) ==
    /\ Len(text) = 2
    /\ text[1] = HOST
    /\ text[2] \in ThreeSegmentPaths

\* The texts a user sends while in URL-input mode.
UrlTexts ==
    {<<HOST, p>> : p \in ThreeSegmentPaths} \cup {<<HOST, "/catalog/shoes">>}

\* What the catalog endpoint, a listing page and the statistics endpoint
\* can fail with.
CatalogFaults == {HTTPError(500), ConnectionError}
ListingFaults == {HTTPError(429), HTTPError(500), ConnectionError, JSONDecodeError}
EvirmaFaults == {HTTPError(429), HTTPError(500), ConnectionError}

\* The products of page `page` of a category: k named products.
NamedProducts(cat, page, k) ==
    [i \in 1..k |-> [name |-> <<cat, page, i>>]]

\* The bodies a listing page can have: k named products, or one product
\* without a name.
PageBodies(cat, page, bound) ==
    {[data |-> [products |-> NamedProducts(cat, page, k)]] : k \in 0..bound}
        \cup {[data |-> [products |-> <<[id |-> 1]>>]]}

\* ------------------------------------------------- process_products
products_of(products_data) ==
    IF "data" \in DOMAIN products_data /\ "products" \in DOMAIN products_data.data
    THEN products_data.data.products
    ELSE <<>>

RECURSIVE names_of(_)
names_of(products) ==
    IF products = <<>> THEN <<>>
    ELSE (IF "name" \in DOMAIN Head(products) THEN <<Head(products).name>> ELSE <<>>)
         \o names_of(Tail(products))

process_products(products_data) == names_of(products_of(products_data))

\* ------------------------------------------------------ EvirmaClient
\* An entry of the keyword map: a cluster with its counts, a null cluster;
\* the third shape of an entry is null (None).
FullCluster == [cluster |-> [product_count |-> 5, freq_syn |-> [monthly |-> 10]]]
NullCluster == [cluster |-> None]

\* The keyword maps the statistics endpoint can answer `keywords` with, as
\* the sequence of its items (a dict keeps its insertion order).
RECURSIVE KeywordMaps(_)
KeywordMaps(keywords) ==
    IF keywords = <<>> THEN {<<>>}
    ELSE {<<[keyword |-> Head(keywords), data |-> d]>> \o rest :
            d \in {FullCluster, NullCluster, None}, rest \in KeywordMaps(Tail(keywords))}

RECURSIVE filter_cluster(_)
filter_cluster(items) ==
    IF items = <<>> THEN <<>>
    ELSE (IF Head(items).data.cluster # None THEN <<Head(items)>> ELSE <<>>)
         \o filter_cluster(Tail(items))

\* query_evirma_api on the endpoint's keyword map: data.get("cluster") on a
\* null entry raises AttributeError; an empty filtered map gives None.
query_evirma_api(items) ==
    IF \E i \in DOMAIN items : items[i].data = None
    THEN Raised(AttributeError)
    ELSE LET filtered == filter_cluster(items)
         IN  IF filtered = <<>> THEN Returned(None)
             ELSE Returned([data |-> [keywords |-> filtered]])

\* cluster.get('product_count', 0) and cluster.get('freq_syn', {}).get('monthly', 0)
product_count_of(cluster) ==
    IF "product_count" \in DOMAIN cluster THEN cluster.product_count ELSE 0

\* A variant that looks for `monthly` on the cluster itself.
monthly_of_cluster_level(cluster) ==
    IF "monthly" \in DOMAIN cluster THEN cluster.monthly ELSE 0

monthly_of(cluster) ==
    IF "freq_syn" \in DOMAIN cluster /\ "monthly" \in DOMAIN cluster.freq_syn
    THEN cluster.freq_syn.monthly
    ELSE 0

RECURSIVE rows_of(_)
rows_of(items) ==
    IF items = <<>> THEN <<>>
    ELSE << [name |-> Head(items).keyword,
             product_count |-> product_count_of(Head(items).data.cluster),
             monthly |-> monthly_of(Head(items).data.cluster)] >>
         \o rows_of(Tail(items))

parse_evirma_response(evirma_data) ==
    IF "data" \notin DOMAIN evirma_data THEN <<>>
    ELSE rows_of(evirma_data.data.keywords)

\* ------------------------------------------------------------- state
VARIABLES
    catalog_data,     \* WildberriesParser.catalog_data: the cached catalog or None
    results,          \* WildberriesParser.results: the accumulator of the one parser
    waiting_for_url,  \* BotHandlers.waiting_for_url: the users in URL-input mode
    log_messages,     \* LogService.log_messages: per user, the log buffer or None
    cur,              \* the task the event loop is running, NoTask between tasks
    task,             \* per handler task: its position and its local variables
    hist,             \* per handler task: what its run has done so far
    runs,             \* the number of runs started so far
    announced,        \* per handler task: the last answer of handle_text after a run
    exclusive,        \* whether the requesters take turns (no update arrives during a run)
    faults,           \* the number of failed calls so far (network, Telegram, disk)
    catalog_requests, \* the requests made to the catalog endpoint: answered and failed
    rs_pc,            \* resolution harness: "off", "input" or "done"
    rs_catalog,       \* the catalog tree handed to the resolution
    rs_url,           \* the URL handed to the resolution
    rs_result,        \* the outcome of find_category_by_url
    sa_pc,            \* standalone script: the position of main() / parse_category
    sa_catalog_data,  \* WildberriesEvirmaParser.catalog_data
    sa_results,       \* WildberriesEvirmaParser.results
    sa_run,           \* the locals of the current parse_category call and what it did
    sa_runs,          \* the number of parse_category calls so far
    sa_faults,        \* the number of failed calls so far
    fl,               \* flush harness: the input of a flush and what it did
    ev,               \* EvirmaClient harness: the keyword map and what was made of it
    app,              \* app.py: WBCategoriesBot and its report job
    mb,               \* main.py: WBCategoriesBot driving WildberriesEvirmaParser
    dl                \* FileService: the report files on disk and the deletion tasks

bot_vars == <<catalog_data, results, waiting_for_url, log_messages, cur, task, hist, runs,
              announced, exclusive, faults, catalog_requests>>

rs_vars == <<rs_pc, rs_catalog, rs_url, rs_result>>

sa_vars == <<sa_pc, sa_catalog_data, sa_results, sa_run, sa_runs, sa_faults>>

vars == <<catalog_data, results, waiting_for_url, log_messages, cur, task, hist, runs,
          announced, exclusive, faults, catalog_requests,
          rs_pc, rs_catalog, rs_url, rs_result,
          sa_pc, sa_catalog_data, sa_results, sa_run, sa_runs, sa_faults, fl,
          ev, app, mb, dl>>

aux_vars == <<ev, app, mb, dl>>

\* A program or harness that is no part of the specification at hand.
Off == [pc |-> "off"]

EvOff == ev = Off
AppOff == app = Off
MbOff == mb = Off /\ dl = Off

IdleTask ==
    [pc |-> "idle", user |-> "nobody", url |-> <<>>, category |-> None, page |-> 0,
     wb_data |-> None, log_message |-> None, exc |-> None, site |-> "none",
     file_rows |-> <<>>, ret |-> "none"]

NoHistory ==
    [saved |-> <<>>, sent |-> <<>>, produced |-> <<>>, tlog |-> <<>>, reqs |-> <<>>,
     cancelled |-> 0, shown |-> <<>>]

\* WildberriesParser.__init__, LogService.__init__, BotHandlers.__init__
BotInit ==
    /\ catalog_data = None
    /\ results = <<>>
    /\ waiting_for_url = {}
    /\ log_messages = [u \in Users |-> None]
    /\ cur = NoTask
    /\ task = [t \in Tasks |-> IdleTask]
    /\ hist = [t \in Tasks |-> NoHistory]
    /\ runs = 0
    /\ announced = [t \in Tasks |-> "none"]
    /\ faults = 0
    /\ catalog_requests = [ok |-> 0, failed |-> 0]

RsOff ==
    /\ rs_pc = "off"
    /\ rs_catalog = None
    /\ rs_url = <<>>
    /\ rs_result = None

NoFlush ==
    [written |-> FALSE, rows |-> <<>>, ret |-> "None", delivered |-> FALSE]

FlOff ==
    fl = [pc |-> "off", op |-> "none", data |-> <<>>, disk_ok |-> TRUE, out |-> NoFlush]

SaNoRun ==
    [url |-> <<>>, category |-> None, page |-> 0, tries |-> 0, wb_data |-> None,
     site |-> "none", saved |-> <<>>, produced |-> <<>>, reqs |-> <<>>, out |-> <<>>]

SaOff ==
    /\ sa_pc = "off"
    /\ sa_catalog_data = None
    /\ sa_results = <<>>
    /\ sa_run = SaNoRun
    /\ sa_runs = 0
    /\ sa_faults = 0

\* ------------------------------------------------- event loop
\* A task runs from one suspension point to the next without interruption:
\* requests.get and requests.post block the loop, and log_to_file never
\* suspends.  The suspension points are the Telegram calls (message.answer,
\* send_message, edit_message_text, send_document) and asyncio.sleep.
Running(t, p) == cur = t /\ task[t].pc = p
Resumable(t, p) == cur = NoTask /\ task[t].pc = p

Quiet == \A t \in Tasks : task[t].pc = "idle"

\* Failed calls are counted, and at most MaxFaults of them happen.
NamesBound == IF exclusive THEN MaxNames ELSE MaxNamesConcurrent
FaultBound == IF exclusive THEN MaxFaults ELSE MaxFaultsConcurrent

\* A new update is handled when the loop is free; with `exclusive` the
\* requesters take turns: no message arrives while a run is in progress.
ArrivalOK == cur = NoTask /\ (exclusive => Quiet)

\* A requester waits for the end of their run before sending the next
\* message: concurrent runs belong to different requesters.
NoRunOf(u) == \A t \in Tasks : task[t].pc # "idle" => task[t].user # u

\* A line of the log or of the request history: what, for which page, and
\* a number (a count of items, or the HTTP status of the answer, 0 when no
\* answer came or the answer could not be decoded).
L(msg, page, n) == [msg |-> msg, page |-> page, n |-> n]

StatusOf(e) == IF e.type = "HTTPError" THEN e.status ELSE 0

\* ------------------------------------------------- BotHandlers
\* 'Отмена' arrives while the event loop is free: from a user with no run,
\* or from the user whose run is suspended (when requesters take turns, the
\* only run there is).
CancelOK(u) ==
    /\ cur = NoTask
    /\ IF exclusive
       THEN \A t \in Tasks : task[t].pc # "idle" => task[t].user = u
       ELSE NoRunOf(u)

\* The run of task t is the user's and is in asyncio.sleep(1), between two
\* page iterations.
BetweenPages(t, u) == task[t].user = u /\ task[t].pc = "sleep"

\* manual_parse, and handle_text on "Парсить"
manual_parse(u) ==
    /\ ArrivalOK
    /\ u \notin waiting_for_url
    /\ waiting_for_url' = waiting_for_url \cup {u}
    /\ UNCHANGED <<catalog_data, results, log_messages, cur, task, hist, runs>>
    /\ UNCHANGED <<catalog_requests, announced, exclusive, faults, rs_vars, sa_vars, fl, aux_vars>>

\* handle_text on "Отмена"
handle_cancel(u) ==
    /\ CancelOK(u)
    /\ u \in waiting_for_url
    /\ waiting_for_url' = waiting_for_url \ {u}
    /\ hist' = [t \in Tasks |->
                  IF BetweenPages(t, u) /\ hist[t].cancelled = 0
                  THEN [hist[t] EXCEPT !.cancelled = task[t].page]
                  ELSE hist[t]]
    /\ UNCHANGED <<catalog_data, results, log_messages, cur, task, runs>>
    /\ UNCHANGED <<catalog_requests, announced, exclusive, faults, rs_vars, sa_vars, fl, aux_vars>>

\* handle_text on a text of a user in URL-input mode: the text passes the
\* format check, the handler answers and suspends in message.answer.
handle_url(t, u, text) ==
    /\ ArrivalOK
    /\ runs < MaxRuns
    /\ u \in waiting_for_url
    /\ url_pattern_matches(text)
    /\ task[t].pc = "idle"
    /\ \A t2 \in Tasks : task[t2].pc = "idle" => t <= t2
    /\ NoRunOf(u)
    /\ task' = [task EXCEPT ![t] = [IdleTask EXCEPT !.pc = "answer_start",
                                                    !.user = u, !.url = text]]
    /\ hist' = [hist EXCEPT ![t] = NoHistory]
    /\ announced' = [announced EXCEPT ![t] = "none"]
    /\ runs' = runs + 1
    /\ UNCHANGED <<catalog_data, results, waiting_for_url, log_messages, cur>>
    /\ UNCHANGED <<catalog_requests, exclusive, faults, rs_vars, sa_vars, fl, aux_vars>>

\* ------------------------------------------------- parse_category
\* start_time = time.time(); self.results = []
parse_category_start(t) ==
    /\ Resumable(t, "answer_start")
    /\ cur' = t
    /\ results' = <<>>
    /\ task' = [task EXCEPT ![t].pc = "resolve"]
    /\ UNCHANGED <<catalog_data, waiting_for_url, log_messages, hist, runs>>
    /\ UNCHANGED <<catalog_requests, announced, exclusive, faults, rs_vars, sa_vars, fl, aux_vars>>

\* A variant that never trusts the cache.
cache_always_empty(data) == TRUE

\* `if self.catalog_data is None:`
cache_is_empty(data) == data = None

\* A variant in which the request is awaited and lets other tasks run.
requests_get_suspends_as_await == TRUE

\* requests.get is a synchronous call: it blocks the event loop, and no
\* other task runs before it returns.
requests_get_suspends == FALSE

\* The task whose request is on its way holds the loop, unless the
\* request suspends.
InRequest(t, p) ==
    /\ task[t].pc = p
    /\ cur = (IF requests_get_suspends THEN NoTask ELSE t)

\* find_category_by_url with an empty cache: the request of
\* fetch_wb_catalog goes out.
fetch_wb_catalog_request(t) ==
    /\ Running(t, "resolve")
    /\ cache_is_empty(catalog_data)
    /\ task' = [task EXCEPT ![t].pc = "catalog_wait"]
    /\ cur' = (IF requests_get_suspends THEN NoTask ELSE t)
    /\ UNCHANGED <<catalog_data, results, waiting_for_url, log_messages, hist, runs>>
    /\ UNCHANGED <<catalog_requests, announced, exclusive, faults, rs_vars, sa_vars, fl, aux_vars>>

\* fetch_wb_catalog returned the catalog, which is assigned to
\* self.catalog_data.
fetch_wb_catalog(t) ==
    /\ InRequest(t, "catalog_wait")
    /\ cur' = t
    /\ catalog_data' = BotCatalog
    /\ catalog_requests' = [catalog_requests EXCEPT !.ok = @ + 1]
    /\ task' = [task EXCEPT ![t].pc = "lookup"]
    /\ hist' = [hist EXCEPT ![t].reqs = Append(@, L("catalog", 0, 200))]
    /\ UNCHANGED <<results, waiting_for_url, log_messages, runs>>
    /\ UNCHANGED <<announced, exclusive, faults, rs_vars, sa_vars, fl, aux_vars>>

\* fetch_wb_catalog logs and re-raises the request's exception; the cache
\* stays empty.
fetch_wb_catalog_fails(t) ==
    /\ InRequest(t, "catalog_wait")
    /\ cur' = t
    /\ \E e \in CatalogFaults :
          /\ task' = [task EXCEPT ![t].exc = e, ![t].pc = "except"]
          /\ hist' = [hist EXCEPT ![t].reqs = Append(@, L("catalog", 0, StatusOf(e)))]
    /\ catalog_requests' = [catalog_requests EXCEPT !.failed = @ + 1]
    /\ UNCHANGED <<catalog_data, results, waiting_for_url, log_messages, runs>>
    /\ faults < FaultBound
    /\ faults' = faults + 1
    /\ UNCHANGED <<announced, exclusive, rs_vars, sa_vars, fl, aux_vars>>

\* find_category_by_url with the catalog in the cache: then
\* `if not category: ... return False`, else the page loop starts.
find_category_by_url(t) ==
    /\ \/ Running(t, "lookup")
       \/ Running(t, "resolve") /\ ~cache_is_empty(catalog_data)
    /\ LET found == find_in_catalog(catalog_data, task[t].url)
       IN  IF found.kind = "raise"
           THEN /\ task' = [task EXCEPT ![t].exc = found.exc, ![t].pc = "except"]
                /\ UNCHANGED hist
           ELSE IF found.val = None
           THEN /\ task' = [task EXCEPT ![t].ret = "False", ![t].pc = "finally"]
                /\ hist' = [hist EXCEPT ![t].tlog = Append(@, L("category_not_found", 0, 0))]
           ELSE /\ task' = [task EXCEPT ![t].category = found.val, ![t].page = 1,
                                        ![t].pc = "fetch"]
                /\ hist' = [hist EXCEPT ![t].tlog = Append(@, L("found_category", 0, 0))]
    /\ UNCHANGED <<catalog_data, results, waiting_for_url, log_messages, cur, runs>>
    /\ UNCHANGED <<catalog_requests, announced, exclusive, faults, rs_vars, sa_vars, fl, aux_vars>>

\* scrape_wb_page: requests.get or raise_for_status or response.json raises.
scrape_wb_page_fails(t) ==
    /\ Running(t, "fetch")
    /\ \E e \in ListingFaults :
          /\ task' = [task EXCEPT ![t].exc = e, ![t].pc = "except"]
          /\ hist' = [hist EXCEPT ![t].reqs = Append(@, L("page", task[t].page, StatusOf(e)))]
    /\ UNCHANGED <<catalog_data, results, waiting_for_url, log_messages, cur, runs>>
    /\ faults < FaultBound
    /\ faults' = faults + 1
    /\ UNCHANGED <<catalog_requests, announced, exclusive, rs_vars, sa_vars, fl, aux_vars>>

\* scrape_wb_page returns (data, log_message).
scrape_wb_page(t) ==
    /\ Running(t, "fetch")
    /\ \E body \in PageBodies(task[t].category.name, task[t].page, NamesBound) :
          LET log_message == L("page_received", task[t].page, Len(products_of(body)))
          IN  /\ task' = [task EXCEPT ![t].wb_data = body,
                                      ![t].log_message = log_message,
                                      ![t].pc = "update_log"]
              /\ hist' = [hist EXCEPT ![t].reqs = Append(@, L("page", task[t].page, 200)),
                                      ![t].tlog = Append(@, log_message)]
    /\ UNCHANGED <<catalog_data, results, waiting_for_url, log_messages, cur, runs>>
    /\ UNCHANGED <<catalog_requests, announced, exclusive, faults, rs_vars, sa_vars, fl, aux_vars>>

\* LogService.update_log_message up to its await: a new message is sent
\* for a user without a buffer, else the line is appended to the buffer's
\* list and the message is edited.
update_log_message(t) ==
    /\ Running(t, "update_log")
    /\ LET u == task[t].user
       IN  IF log_messages[u] = None
           THEN /\ task' = [task EXCEPT ![t].pc = "log_send_wait"]
                /\ UNCHANGED log_messages
           ELSE /\ task' = [task EXCEPT ![t].pc = "log_edit_wait"]
                /\ log_messages' = [log_messages EXCEPT
                                      ![u].text = Append(@, task[t].log_message)]
    /\ cur' = NoTask
    /\ UNCHANGED <<catalog_data, results, waiting_for_url, hist, runs>>
    /\ UNCHANGED <<catalog_requests, announced, exclusive, faults, rs_vars, sa_vars, fl, aux_vars>>

\* bot.send_message returned: the user has a message with the line, and
\* the buffer of the user is created.
log_message_sent(t) ==
    /\ Resumable(t, "log_send_wait")
    /\ cur' = t
    /\ log_messages' = [log_messages EXCEPT
                          ![task[t].user] = [text |-> <<task[t].log_message>>]]
    /\ task' = [task EXCEPT ![t].pc = "process"]
    /\ hist' = [hist EXCEPT ![t].shown = <<task[t].log_message>>]
    /\ UNCHANGED <<catalog_data, results, waiting_for_url, runs>>
    /\ UNCHANGED <<catalog_requests, announced, exclusive, faults, rs_vars, sa_vars, fl, aux_vars>>

\* bot.send_message raised: nothing in update_log_message catches it.
log_message_send_fails(t) ==
    /\ Resumable(t, "log_send_wait")
    /\ cur' = t
    /\ task' = [task EXCEPT ![t].exc = TelegramAPIError, ![t].pc = "except"]
    /\ UNCHANGED <<catalog_data, results, waiting_for_url, log_messages, hist, runs>>
    /\ faults < FaultBound
    /\ faults' = faults + 1
    /\ UNCHANGED <<catalog_requests, announced, exclusive, rs_vars, sa_vars, fl, aux_vars>>

\* bot.edit_message_text returned: the user's message shows the text built
\* from the buffer; the assignment that follows it stores
\* the list that is in the buffer already (or raises KeyError inside the
\* try when the buffer is gone, which is logged).
log_message_edited(t) ==
    /\ Resumable(t, "log_edit_wait")
    /\ cur' = t
    /\ task' = [task EXCEPT ![t].pc = "process"]
    /\ IF log_messages[task[t].user] = None
       THEN UNCHANGED hist
       ELSE hist' = [hist EXCEPT ![t].shown = log_messages[task[t].user].text]
    /\ UNCHANGED <<catalog_data, results, waiting_for_url, log_messages, runs>>
    /\ UNCHANGED <<catalog_requests, announced, exclusive, faults, rs_vars, sa_vars, fl, aux_vars>>

\* bot.edit_message_text raised: caught and logged.
log_message_edit_fails(t) ==
    /\ Resumable(t, "log_edit_wait")
    /\ cur' = t
    /\ task' = [task EXCEPT ![t].pc = "process"]
    /\ UNCHANGED <<catalog_data, results, waiting_for_url, log_messages, hist, runs>>
    /\ faults < FaultBound
    /\ faults' = faults + 1
    /\ UNCHANGED <<catalog_requests, announced, exclusive, rs_vars, sa_vars, fl, aux_vars>>

\* products = process_products(wb_data); `if not products:` flushes and
\* breaks.
process_page(t) ==
    /\ Running(t, "process")
    /\ IF process_products(task[t].wb_data) = <<>>
       THEN /\ task' = [task EXCEPT ![t].site = "empty_page", ![t].pc = "flush"]
            /\ hist' = [hist EXCEPT
                          ![t].tlog = Append(@, L("no_products_on_page", task[t].page, 0))]
       ELSE /\ task' = [task EXCEPT ![t].pc = "enrich"]
            /\ UNCHANGED hist
    /\ UNCHANGED <<catalog_data, results, waiting_for_url, log_messages, cur, runs>>
    /\ UNCHANGED <<catalog_requests, announced, exclusive, faults, rs_vars, sa_vars, fl, aux_vars>>

\* query_evirma_api: requests.post or raise_for_status raises.
query_evirma_api_fails(t) ==
    /\ Running(t, "enrich")
    /\ \E e \in EvirmaFaults :
          /\ task' = [task EXCEPT ![t].exc = e, ![t].pc = "except"]
          /\ hist' = [hist EXCEPT ![t].reqs = Append(@, L("evirma", task[t].page, StatusOf(e)))]
    /\ UNCHANGED <<catalog_data, results, waiting_for_url, log_messages, cur, runs>>
    /\ faults < FaultBound
    /\ faults' = faults + 1
    /\ UNCHANGED <<catalog_requests, announced, exclusive, rs_vars, sa_vars, fl, aux_vars>>

\* The rows a cycle appends to the accumulator.
\* A variant that assigns the page's rows instead of extending the list.
extend_replacing(rows, page_results) == page_results

extend(rows, page_results) == rows \o page_results

\* query_evirma_api answered: None flushes and breaks; otherwise the rows
\* are appended and the run sleeps one second.
enrich_page(t) ==
    /\ Running(t, "enrich")
    /\ \E items \in KeywordMaps(process_products(task[t].wb_data)) :
          LET evirma_response == query_evirma_api(items)
              req == L("evirma", task[t].page, 200)
          IN  IF evirma_response.kind = "raise"
              THEN /\ task' = [task EXCEPT ![t].exc = evirma_response.exc,
                                           ![t].pc = "except"]
                   /\ hist' = [hist EXCEPT ![t].reqs = Append(@, req)]
                   /\ UNCHANGED <<results, cur>>
              ELSE IF evirma_response.val = None
              THEN /\ task' = [task EXCEPT ![t].site = "empty_enrich", ![t].pc = "flush"]
                   /\ hist' = [hist EXCEPT ![t].reqs = Append(@, req)]
                   /\ UNCHANGED <<results, cur>>
              ELSE LET page_results == parse_evirma_response(evirma_response.val)
                   IN  /\ results' = extend(results, page_results)
                       /\ task' = [task EXCEPT ![t].pc = "sleep"]
                       /\ hist' = [hist EXCEPT ![t].reqs = Append(@, req),
                                               ![t].produced = Append(@, page_results)]
                       /\ cur' = NoTask
    /\ UNCHANGED <<catalog_data, waiting_for_url, log_messages, runs>>
    /\ UNCHANGED <<catalog_requests, announced, exclusive, faults, rs_vars, sa_vars, fl, aux_vars>>

\* A variant whose range ends one page later.
range_has_next_one_more(page) == page <= MAX_PAGES

\* range(1, settings.MAX_PAGES + 1): whether a page follows `page`.
range_has_next(page) == page < MAX_PAGES

\* A variant that steps over a page.
range_next_skipping(page) == page + 2

\* range(1, settings.MAX_PAGES + 1): the page that follows `page`.
range_next(page) == page + 1

\* asyncio.sleep(1) returned: the next page of range(1, MAX_PAGES + 1), or
\* the statements after the loop.
next_page(t) ==
    /\ Resumable(t, "sleep")
    /\ cur' = t
    /\ IF range_has_next(task[t].page)
       THEN task' = [task EXCEPT ![t].page = range_next(@), ![t].pc = "fetch"]
       ELSE task' = [task EXCEPT ![t].site = "after_loop", ![t].pc = "flush"]
    /\ UNCHANGED <<catalog_data, results, waiting_for_url, log_messages, hist, runs>>
    /\ UNCHANGED <<catalog_requests, announced, exclusive, faults, rs_vars, sa_vars, fl, aux_vars>>

\* ------------------------------------------------- the flush
\* `if self.results:` before every save_to_excel of parse_category.
flush_wanted(rows) == rows # <<>>

\* The message logged after send_excel_to_user, by the place of the flush.
finished_message(site) ==
    IF site = "rate_limit" THEN "finished_max_products"
    ELSE IF site \in {"http_error", "exception"} THEN "finished_due_to_error"
    ELSE "finished_no_more_products"

\* FileService.save_to_excel wrote the file; send_excel_to_user finds it
\* and suspends in bot.send_document.
save_to_excel(t) ==
    /\ Running(t, "flush")
    /\ flush_wanted(results)
    /\ task' = [task EXCEPT ![t].file_rows = results, ![t].pc = "send_wait"]
    /\ hist' = [hist EXCEPT ![t].saved = Append(@, [rows |-> results, ok |-> TRUE])]
    /\ cur' = NoTask
    /\ UNCHANGED <<catalog_data, results, waiting_for_url, log_messages, runs>>
    /\ UNCHANGED <<catalog_requests, announced, exclusive, faults, rs_vars, sa_vars, fl, aux_vars>>

\* A variant whose caller does not test `if file_path:` and goes on to
\* send_excel_to_user.
save_to_excel_fails_then_sends(t) ==
    /\ Running(t, "flush")
    /\ flush_wanted(results)
    /\ task' = [task EXCEPT ![t].file_rows = results, ![t].pc = "send_wait"]
    /\ hist' = [hist EXCEPT ![t].saved = Append(@, [rows |-> results, ok |-> FALSE])]
    /\ cur' = NoTask
    /\ UNCHANGED <<catalog_data, results, waiting_for_url, log_messages, runs>>
    /\ faults < FaultBound
    /\ faults' = faults + 1
    /\ UNCHANGED <<catalog_requests, announced, exclusive, rs_vars, sa_vars, fl, aux_vars>>

\* FileService.save_to_excel: the writer raised; the error is logged and
\* None is returned, so nothing is sent.
save_to_excel_fails(t) ==
    /\ Running(t, "flush")
    /\ flush_wanted(results)
    /\ task' = [task EXCEPT ![t].pc = "flush_end"]
    /\ hist' = [hist EXCEPT ![t].saved = Append(@, [rows |-> results, ok |-> FALSE])]
    /\ UNCHANGED <<catalog_data, results, waiting_for_url, log_messages, cur, runs>>
    /\ faults < FaultBound
    /\ faults' = faults + 1
    /\ UNCHANGED <<catalog_requests, announced, exclusive, rs_vars, sa_vars, fl, aux_vars>>

\* The accumulator is empty: the flushes after an empty enrichment and
\* after the loop log that nothing matched, the others do nothing.
nothing_to_flush(t) ==
    /\ Running(t, "flush")
    /\ ~flush_wanted(results)
    /\ task' = [task EXCEPT ![t].pc = "flush_end"]
    /\ IF task[t].site \in {"empty_enrich", "after_loop"}
       THEN hist' = [hist EXCEPT ![t].tlog = Append(@, L("no_products_matching", 0, 0))]
       ELSE UNCHANGED hist
    /\ UNCHANGED <<catalog_data, results, waiting_for_url, log_messages, cur, runs>>
    /\ UNCHANGED <<catalog_requests, announced, exclusive, faults, rs_vars, sa_vars, fl, aux_vars>>

\* bot.send_document returned: the deletion task is created, and
\* parse_category logs the end of the parsing.
document_sent(t) ==
    /\ Resumable(t, "send_wait")
    /\ cur' = t
    /\ task' = [task EXCEPT ![t].pc = "flush_end"]
    /\ hist' = [hist EXCEPT
                  ![t].sent = Append(@, [rows |-> task[t].file_rows, ok |-> TRUE,
                                         delete_task |-> TRUE]),
                  ![t].tlog = Append(@, L(finished_message(task[t].site), 0, Len(results)))]
    /\ UNCHANGED <<catalog_data, results, waiting_for_url, log_messages, runs>>
    /\ UNCHANGED <<catalog_requests, announced, exclusive, faults, rs_vars, sa_vars, fl, aux_vars>>

\* bot.send_document raised: send_excel_to_user logs it and returns; the
\* statement that creates the deletion task was not reached.
document_send_fails(t) ==
    /\ Resumable(t, "send_wait")
    /\ cur' = t
    /\ task' = [task EXCEPT ![t].pc = "flush_end"]
    /\ hist' = [hist EXCEPT
                  ![t].sent = Append(@, [rows |-> task[t].file_rows, ok |-> FALSE,
                                         delete_task |-> FALSE]),
                  ![t].tlog = Append(@, L(finished_message(task[t].site), 0, Len(results)))]
    /\ UNCHANGED <<catalog_data, results, waiting_for_url, log_messages, runs>>
    /\ faults < FaultBound
    /\ faults' = faults + 1
    /\ UNCHANGED <<catalog_requests, announced, exclusive, rs_vars, sa_vars, fl, aux_vars>>

\* What follows a flush: the flushes inside the loop end with `break`,
\* which leads to the statements after the loop; the others return True.
after_flush(site) ==
    IF site \in {"empty_page", "empty_enrich"} THEN "after_loop" ELSE "return"

\* A variant whose except clauses return False.
flush_end_false_after_error(t) ==
    /\ Running(t, "flush_end")
    /\ IF after_flush(task[t].site) = "after_loop"
       THEN task' = [task EXCEPT ![t].site = "after_loop", ![t].pc = "flush"]
       ELSE task' = [task EXCEPT
                       ![t].ret = (IF task[t].site \in {"http_error", "exception"}
                                   THEN "False" ELSE "True"),
                       ![t].pc = "finally"]
    /\ UNCHANGED <<catalog_data, results, waiting_for_url, log_messages, cur, hist, runs>>
    /\ UNCHANGED <<catalog_requests, announced, exclusive, faults, rs_vars, sa_vars, fl, aux_vars>>

flush_end(t) ==
    /\ Running(t, "flush_end")
    /\ IF after_flush(task[t].site) = "after_loop"
       THEN task' = [task EXCEPT ![t].site = "after_loop", ![t].pc = "flush"]
       ELSE task' = [task EXCEPT ![t].ret = "True", ![t].pc = "finally"]
    /\ UNCHANGED <<catalog_data, results, waiting_for_url, log_messages, cur, hist, runs>>
    /\ UNCHANGED <<catalog_requests, announced, exclusive, faults, rs_vars, sa_vars, fl, aux_vars>>

\* ------------------------------------------------- except / finally
\* A variant without the branch for status 429.
except_clause_without_429(exc) ==
    IF exc.type = "HTTPError" THEN "http_error" ELSE "exception"

\* A variant without the `except Exception` clause.
except_clause_http_only(exc) ==
    IF exc.type = "HTTPError"
    THEN (IF exc.status = 429 THEN "rate_limit" ELSE "http_error")
    ELSE "uncaught"

\* The except clause an exception raised in the try block reaches.
except_clause(exc) ==
    IF exc.type = "HTTPError"
    THEN (IF exc.status = 429 THEN "rate_limit" ELSE "http_error")
    ELSE "exception"

except_message(site) ==
    IF site = "rate_limit" THEN "maximum_products_parsed_429" ELSE "parsing_error"

\* A variant whose except clauses log the error and save nothing, as the
\* except clause of the standalone script does.
handle_exception_without_flush(t) ==
    /\ Running(t, "except")
    /\ task' = [task EXCEPT ![t].site = except_clause(task[t].exc), ![t].exc = None,
                            ![t].ret = "True", ![t].pc = "finally"]
    /\ hist' = [hist EXCEPT ![t].tlog = Append(@, L("parsing_error", 0, 0))]
    /\ UNCHANGED <<catalog_data, results, waiting_for_url, log_messages, cur, runs>>
    /\ UNCHANGED <<catalog_requests, announced, exclusive, faults, rs_vars, sa_vars, fl, aux_vars>>

handle_exception(t) ==
    /\ Running(t, "except")
    /\ LET site == except_clause(task[t].exc)
       IN  IF site = "uncaught"
           THEN /\ task' = [task EXCEPT ![t].ret = "raised", ![t].pc = "finally"]
                /\ UNCHANGED hist
           ELSE /\ task' = [task EXCEPT ![t].site = site, ![t].exc = None,
                                        ![t].pc = "flush"]
                /\ hist' = [hist EXCEPT ![t].tlog = Append(@, L(except_message(site), 0, 0))]
    /\ UNCHANGED <<catalog_data, results, waiting_for_url, log_messages, cur, runs>>
    /\ UNCHANGED <<catalog_requests, announced, exclusive, faults, rs_vars, sa_vars, fl, aux_vars>>

\* A variant that logs the elapsed time at the end of the try block only,
\* which `return False` does not reach.
finally_clause_not_on_return_false(t) ==
    /\ Running(t, "finally")
    /\ task' = [task EXCEPT ![t].pc = "handler_tail"]
    /\ IF task[t].ret = "False"
       THEN UNCHANGED hist
       ELSE hist' = [hist EXCEPT ![t].tlog = Append(@, L("total_parsing_time", 0, 0))]
    /\ UNCHANGED <<catalog_data, results, waiting_for_url, log_messages, cur, runs>>
    /\ UNCHANGED <<catalog_requests, announced, exclusive, faults, rs_vars, sa_vars, fl, aux_vars>>

\* finally: the elapsed time is logged.
finally_clause(t) ==
    /\ Running(t, "finally")
    /\ task' = [task EXCEPT ![t].pc = "handler_tail"]
    /\ hist' = [hist EXCEPT ![t].tlog = Append(@, L("total_parsing_time", 0, 0))]
    /\ UNCHANGED <<catalog_data, results, waiting_for_url, log_messages, cur, runs>>
    /\ UNCHANGED <<catalog_requests, announced, exclusive, faults, rs_vars, sa_vars, fl, aux_vars>>

\* A variant that leaves the buffer as it is.
clear_log_messages_keeping(buffers, user_id) == buffers

\* LogService.clear_log_messages: `del self.log_messages[user_id]` when
\* the user has a buffer.
clear_log_messages(buffers, user_id) == [buffers EXCEPT ![user_id] = None]

\* A variant that does not take the user out of URL-input mode.
handler_tail_keeps_mode(t) ==
    /\ Running(t, "handler_tail")
    /\ LET u == task[t].user
       IN  IF task[t].ret = "raised"
           THEN /\ announced' = [announced EXCEPT ![t] = "raised"]
                /\ UNCHANGED <<waiting_for_url, log_messages>>
           ELSE /\ log_messages' = clear_log_messages(log_messages, u)
                /\ UNCHANGED waiting_for_url
                /\ announced' = [announced EXCEPT ![t] =
                                    IF task[t].ret = "True" THEN "completed"
                                    ELSE "not_found"]
    /\ task' = [task EXCEPT ![t] = IdleTask]
    /\ hist' = [hist EXCEPT ![t] = NoHistory]
    /\ cur' = NoTask
    /\ UNCHANGED <<catalog_data, results, runs>>
    /\ UNCHANGED <<catalog_requests, exclusive, faults, rs_vars, sa_vars, fl, aux_vars>>

\* handle_text after `success = await self.parser.parse_category(...)`:
\* clear_log_messages, then on success `del self.waiting_for_url[user_id]`
\* (KeyError when the user is no longer there) and the answer, which says
\* that the parsing is completed or that the category was not found.  The
\* task ends in message.answer; its local variables are dropped.
handler_tail(t) ==
    /\ Running(t, "handler_tail")
    /\ LET u == task[t].user
       IN  IF task[t].ret = "raised"
           THEN /\ announced' = [announced EXCEPT ![t] = "raised"]
                /\ UNCHANGED <<waiting_for_url, log_messages>>
           ELSE /\ log_messages' = clear_log_messages(log_messages, u)
                /\ IF task[t].ret = "True"
                   THEN IF u \in waiting_for_url
                        THEN /\ waiting_for_url' = waiting_for_url \ {u}
                             /\ announced' = [announced EXCEPT ![t] = "completed"]
                        ELSE /\ UNCHANGED waiting_for_url
                             /\ announced' = [announced EXCEPT ![t] = "handler_raised"]
                   ELSE /\ UNCHANGED waiting_for_url
                        /\ announced' = [announced EXCEPT ![t] = "not_found"]
    /\ task' = [task EXCEPT ![t] = IdleTask]
    /\ hist' = [hist EXCEPT ![t] = NoHistory]
    /\ cur' = NoTask
    /\ UNCHANGED <<catalog_data, results, runs>>
    /\ UNCHANGED <<catalog_requests, exclusive, faults, rs_vars, sa_vars, fl, aux_vars>>

\* ------------------------------------------------- the bot
RunStep(t) ==
    \/ parse_category_start(t)
    \/ fetch_wb_catalog_request(t)
    \/ fetch_wb_catalog(t)
    \/ fetch_wb_catalog_fails(t)
    \/ find_category_by_url(t)
    \/ scrape_wb_page_fails(t)
    \/ scrape_wb_page(t)
    \/ update_log_message(t)
    \/ log_message_sent(t)
    \/ log_message_send_fails(t)
    \/ log_message_edited(t)
    \/ log_message_edit_fails(t)
    \/ process_page(t)
    \/ query_evirma_api_fails(t)
    \/ enrich_page(t)
    \/ next_page(t)
    \/ save_to_excel(t)
    \/ save_to_excel_fails(t)
    \/ nothing_to_flush(t)
    \/ document_sent(t)
    \/ document_send_fails(t)
    \/ flush_end(t)
    \/ handle_exception(t)
    \/ finally_clause(t)
    \/ handler_tail(t)

Next ==
    \/ \E u \in Users : manual_parse(u)
    \/ \E u \in Users : handle_cancel(u)
    \/ \E t \in Tasks, u \in Users, text \in UrlTexts : handle_url(t, u, text)
    \/ \E t \in Tasks : RunStep(t)

\* Requesters take turns.
Init == BotInit /\ RsOff /\ SaOff /\ FlOff /\ EvOff /\ AppOff /\ MbOff /\ exclusive = TRUE

Spec == Init /\ [][Next]_vars

\* The runs of one requester, one after the other; every call that a run
\* waits for returns or fails, and the event loop resumes the task that
\* waited for it.
LiveUsers == {"u1"}

NextLive ==
    \/ \E u \in LiveUsers : manual_parse(u)
    \/ \E t \in Tasks, u \in LiveUsers, text \in UrlTexts : handle_url(t, u, text)
    \/ \E t \in Tasks : RunStep(t)

SpecLive == Init /\ [][NextLive]_vars /\ \A t \in Tasks : WF_vars(RunStep(t))

\* Runs of different requesters interleave at their suspension points.
InitConcurrent == BotInit /\ RsOff /\ SaOff /\ FlOff /\ EvOff /\ AppOff /\ MbOff /\ exclusive = FALSE

SpecConcurrent == InitConcurrent /\ [][Next]_vars

\* ------------------------------------------------ resolution harness
RsInit ==
    /\ rs_pc = "input"
    /\ rs_catalog \in ResolveCatalogs
    /\ rs_url \in ResolveUrls
    /\ rs_result = None

RsResolve ==
    /\ rs_pc = "input"
    /\ rs_result' = find_in_catalog(rs_catalog, rs_url)
    /\ rs_pc' = "done"
    /\ UNCHANGED <<rs_catalog, rs_url>>
    /\ UNCHANGED <<bot_vars, sa_vars, fl, aux_vars>>

InitResolve == RsInit /\ BotInit /\ SaOff /\ FlOff /\ EvOff /\ AppOff /\ MbOff /\ exclusive = TRUE

SpecResolve == InitResolve /\ [][RsResolve]_vars

\* ------------------------------------------------ standalone script
\* src/wildberries.py: main() reads URLs and calls parse_category on one
\* WildberriesEvirmaParser; nothing runs concurrently.
StandaloneCatalog == ListTree

\* The lines typed at the prompt.
StandaloneInputs ==
    {<<HOST, "/catalog/shoes">>, <<HOST, "/catalog/hats">>, <<HOST, "/catalog/none">>,
     <<OTHERHOST, "/catalog/shoes">>}

\* 'wildberries.ru' in url
has_wb_domain(url) == \E i \in DOMAIN url : url[i] = HOST

\* What scrape_wb_page raises (status 429 is answered with None instead).
StandaloneListingFaults == {HTTPError(500), ConnectionError, JSONDecodeError}

SaOut(msg) == [sa_run EXCEPT !.out = Append(@, msg)]

\* main(): a line that is not 'q' is read; without the domain it is
\* refused, otherwise parse_category starts.
sa_main(url) ==
    /\ sa_pc = "input"
    /\ sa_runs < MaxRunsStandalone
    /\ IF ~has_wb_domain(url)
       THEN /\ sa_run' = [SaNoRun EXCEPT !.url = url, !.out = <<"bad_domain">>]
            /\ UNCHANGED <<sa_pc, sa_runs>>
       ELSE /\ sa_run' = [SaNoRun EXCEPT !.url = url]
            /\ sa_pc' = "resolve"
            /\ sa_runs' = sa_runs + 1
    /\ UNCHANGED <<sa_catalog_data, sa_results, sa_faults>>
    /\ UNCHANGED <<bot_vars, rs_vars, fl, aux_vars>>

\* main(): 'q' ends the loop.
sa_quit ==
    /\ sa_pc = "input"
    /\ sa_pc' = "exit"
    /\ UNCHANGED <<sa_catalog_data, sa_results, sa_run, sa_runs, sa_faults>>
    /\ UNCHANGED <<bot_vars, rs_vars, fl, aux_vars>>

\* fetch_wb_catalog raised: the exception passes through
\* find_category_by_url into the except clause of parse_category.
sa_fetch_wb_catalog_fails ==
    /\ sa_pc = "resolve"
    /\ sa_catalog_data = None
    /\ sa_faults < MaxFaultsStandalone
    /\ sa_faults' = sa_faults + 1
    /\ \E e \in CatalogFaults :
          sa_run' = [sa_run EXCEPT !.reqs = Append(@, L("catalog", 0, StatusOf(e)))]
    /\ sa_pc' = "except"
    /\ UNCHANGED <<sa_catalog_data, sa_results, sa_runs>>
    /\ UNCHANGED <<bot_vars, rs_vars, fl, aux_vars>>

sa_find_category_by_url ==
    /\ sa_pc = "resolve"
    /\ LET fetched == sa_catalog_data = None
           catalog == IF fetched THEN StandaloneCatalog ELSE sa_catalog_data
           req == IF fetched THEN <<L("catalog", 0, 200)>> ELSE <<>>
           found == find_in_catalog(catalog, sa_run.url)
       IN  /\ sa_catalog_data' = catalog
           /\ IF found.kind = "raise"
              THEN /\ sa_run' = [sa_run EXCEPT !.reqs = @ \o req]
                   /\ sa_pc' = "except"
              ELSE IF found.val = None
              THEN /\ sa_run' = [sa_run EXCEPT !.reqs = @ \o req,
                                               !.out = Append(@, "category_not_found")]
                   /\ sa_pc' = "finally"
              ELSE /\ sa_run' = [sa_run EXCEPT !.reqs = @ \o req,
                                               !.category = found.val,
                                               !.page = 1, !.tries = 0]
                   /\ sa_pc' = "fetch"
    /\ UNCHANGED <<sa_results, sa_runs, sa_faults>>
    /\ UNCHANGED <<bot_vars, rs_vars, fl, aux_vars>>

\* One attempt of a call under @retry failed: the call is tried again
\* until RETRY_TRIES attempts have failed, then the exception is raised.
sa_after_failed_try(run) ==
    IF run.tries + 1 < RETRY_TRIES
    THEN [run EXCEPT !.tries = @ + 1]
    ELSE [run EXCEPT !.tries = 0]

\* A variant that allows one attempt more.
sa_gives_up_one_more(run) == run.tries >= RETRY_TRIES

sa_gives_up(run) == run.tries + 1 >= RETRY_TRIES

sa_scrape_wb_page_fails ==
    /\ sa_pc = "fetch"
    /\ sa_faults < MaxFaultsStandalone
    /\ sa_faults' = sa_faults + 1
    /\ \E e \in StandaloneListingFaults :
          sa_run' = sa_after_failed_try(
                       [sa_run EXCEPT !.reqs = Append(@, L("page", sa_run.page, StatusOf(e)))])
    /\ sa_pc' = IF sa_gives_up(sa_run) THEN "except" ELSE "fetch"
    /\ UNCHANGED <<sa_catalog_data, sa_results, sa_runs>>
    /\ UNCHANGED <<bot_vars, rs_vars, fl, aux_vars>>

\* scrape_wb_page: status 429 is caught and None is returned, which
\* parse_category takes for the end of the products.
sa_scrape_wb_page_429 ==
    /\ sa_pc = "fetch"
    /\ sa_run' = [sa_run EXCEPT !.reqs = Append(@, L("page", sa_run.page, 429)),
                                !.wb_data = None, !.tries = 0, !.site = "rate_limit"]
    /\ sa_pc' = "flush"
    /\ UNCHANGED <<sa_catalog_data, sa_results, sa_runs, sa_faults>>
    /\ UNCHANGED <<bot_vars, rs_vars, fl, aux_vars>>

\* scrape_wb_page returned the page; process_products takes the names.
sa_scrape_wb_page ==
    /\ sa_pc = "fetch"
    /\ \E body \in PageBodies(sa_run.category.name, sa_run.page, MaxNamesStandalone) :
          LET run == [sa_run EXCEPT !.reqs = Append(@, L("page", sa_run.page, 200)),
                                    !.wb_data = body, !.tries = 0]
          IN  IF process_products(body) = <<>>
              THEN /\ sa_run' = [run EXCEPT !.site = "empty_page",
                                            !.out = Append(@, "no_products_on_page")]
                   /\ sa_pc' = "flush"
              ELSE /\ sa_run' = run
                   /\ sa_pc' = "enrich"
    /\ UNCHANGED <<sa_catalog_data, sa_results, sa_runs, sa_faults>>
    /\ UNCHANGED <<bot_vars, rs_vars, fl, aux_vars>>

sa_query_evirma_api_fails ==
    /\ sa_pc = "enrich"
    /\ sa_faults < MaxFaultsStandalone
    /\ sa_faults' = sa_faults + 1
    /\ \E e \in EvirmaFaults :
          sa_run' = sa_after_failed_try(
                       [sa_run EXCEPT !.reqs = Append(@, L("evirma", sa_run.page, StatusOf(e)))])
    /\ sa_pc' = IF sa_gives_up(sa_run) THEN "except" ELSE "enrich"
    /\ UNCHANGED <<sa_catalog_data, sa_results, sa_runs>>
    /\ UNCHANGED <<bot_vars, rs_vars, fl, aux_vars>>

\* query_evirma_api got an answer: an exception of the filter is one more
\* failed attempt; None ends the loop; otherwise the rows are added, and
\* after time.sleep(1) the loop goes to the next page or ends.
sa_query_evirma_api ==
    /\ sa_pc = "enrich"
    /\ \E items \in KeywordMaps(process_products(sa_run.wb_data)) :
          LET evirma_response == query_evirma_api(items)
              run == [sa_run EXCEPT !.reqs = Append(@, L("evirma", sa_run.page, 200))]
          IN  IF evirma_response.kind = "raise"
              THEN /\ sa_run' = sa_after_failed_try(run)
                   /\ sa_pc' = IF sa_gives_up(sa_run) THEN "except" ELSE "enrich"
                   /\ UNCHANGED sa_results
              ELSE IF evirma_response.val = None
              THEN /\ sa_run' = [run EXCEPT !.tries = 0, !.site = "empty_enrich"]
                   /\ sa_pc' = "flush"
                   /\ UNCHANGED sa_results
              ELSE LET page_results == parse_evirma_response(evirma_response.val)
                       more == sa_run.page < MaxPagesStandalone
                   IN  /\ sa_results' = extend(sa_results, page_results)
                       /\ sa_run' = [run EXCEPT !.tries = 0,
                                                !.produced = Append(@, page_results),
                                                !.page = IF more THEN @ + 1 ELSE @,
                                                !.site = IF more THEN @ ELSE "after_loop"]
                       /\ sa_pc' = IF more THEN "fetch" ELSE "flush"
    /\ UNCHANGED <<sa_catalog_data, sa_runs, sa_faults>>
    /\ UNCHANGED <<bot_vars, rs_vars, fl, aux_vars>>

\* After a flush inside the loop comes `break` and the flush after the
\* loop; after that one the try block is left.
sa_after_flush(run) ==
    IF run.site = "after_loop" THEN run ELSE [run EXCEPT !.site = "after_loop"]

\* `if self.results:` save_to_excel and the message, else the message
\* that nothing was found (the flush of an empty page has no else).
sa_save_to_excel ==
    /\ sa_pc = "flush"
    /\ IF flush_wanted(sa_results)
       THEN sa_run' = sa_after_flush(
                         [sa_run EXCEPT !.saved = Append(@, [rows |-> sa_results, ok |-> TRUE]),
                                        !.out = Append(@, "finished")])
       ELSE sa_run' = sa_after_flush(
                         IF sa_run.site = "empty_page" THEN sa_run
                         ELSE SaOut("no_products_matching"))
    /\ sa_pc' = IF sa_run.site = "after_loop" THEN "finally" ELSE "flush"
    /\ UNCHANGED <<sa_catalog_data, sa_results, sa_runs, sa_faults>>
    /\ UNCHANGED <<bot_vars, rs_vars, fl, aux_vars>>

\* save_to_excel: the writer raised; the error is printed, and
\* parse_category prints its message all the same.
sa_save_to_excel_fails ==
    /\ sa_pc = "flush"
    /\ flush_wanted(sa_results)
    /\ sa_faults < MaxFaultsStandalone
    /\ sa_faults' = sa_faults + 1
    /\ sa_run' = sa_after_flush(
                     [sa_run EXCEPT !.saved = Append(@, [rows |-> sa_results, ok |-> FALSE]),
                                    !.out = Append(@, "finished")])
    /\ sa_pc' = IF sa_run.site = "after_loop" THEN "finally" ELSE "flush"
    /\ UNCHANGED <<sa_catalog_data, sa_results, sa_runs>>
    /\ UNCHANGED <<bot_vars, rs_vars, fl, aux_vars>>

\* except Exception: the error is printed.
sa_except ==
    /\ sa_pc = "except"
    /\ sa_run' = SaOut("parsing_error")
    /\ sa_pc' = "finally"
    /\ UNCHANGED <<sa_catalog_data, sa_results, sa_runs, sa_faults>>
    /\ UNCHANGED <<bot_vars, rs_vars, fl, aux_vars>>

\* finally: the elapsed time is printed; parse_category returns to main().
sa_finally ==
    /\ sa_pc = "finally"
    /\ sa_run' = SaOut("total_time")
    /\ sa_pc' = "input"
    /\ UNCHANGED <<sa_catalog_data, sa_results, sa_runs, sa_faults>>
    /\ UNCHANGED <<bot_vars, rs_vars, fl, aux_vars>>

SaNext ==
    \/ \E url \in StandaloneInputs : sa_main(url)
    \/ sa_quit
    \/ sa_fetch_wb_catalog_fails
    \/ sa_find_category_by_url
    \/ sa_scrape_wb_page_fails
    \/ sa_scrape_wb_page_429
    \/ sa_scrape_wb_page
    \/ sa_query_evirma_api_fails
    \/ sa_query_evirma_api
    \/ sa_save_to_excel
    \/ sa_save_to_excel_fails
    \/ sa_except
    \/ sa_finally

\* WildberriesEvirmaParser.__init__, and main() at its prompt.
SaInit ==
    /\ sa_pc = "input"
    /\ sa_catalog_data = None
    /\ sa_results = <<>>
    /\ sa_run = SaNoRun
    /\ sa_runs = 0
    /\ sa_faults = 0

InitStandalone == SaInit /\ BotInit /\ RsOff /\ FlOff /\ EvOff /\ AppOff /\ MbOff /\ exclusive = TRUE

SpecStandalone == InitStandalone /\ [][SaNext]_vars

\* ------------------------------------------------ flush harness
\* save_to_excel of both implementations, and the flush block of
\* parse_category, applied to an accumulator of any content.
FlushRowValues ==
    {[name |-> <<"Shoes", 1, 1>>, product_count |-> 5, monthly |-> 10],
     [name |-> <<"Shoes", 1, 2>>, product_count |-> 0, monthly |-> 0],
     [name |-> <<"Hats", 1, 1>>, product_count |-> 5, monthly |-> 0]}

FlushInputs == SeqsUpTo(FlushRowValues, MaxFlushRows)

\* A variant without the test for empty data.
no_data_unchecked(data) == FALSE

\* `if not data:` / `if not self.results:`
no_data(data) == data = <<>>

\* FileService.save_to_excel: None when there is no data or the writer
\* raises, else the file holds the data and its path is returned.
file_service_save_to_excel(data, disk_ok) ==
    IF no_data(data) THEN NoFlush
    ELSE IF disk_ok
    THEN [written |-> TRUE, rows |-> data, ret |-> "file_path", delivered |-> FALSE]
    ELSE NoFlush

\* WildberriesEvirmaParser.save_to_excel: returns None in every case.
standalone_save_to_excel(data, disk_ok) ==
    IF no_data(data) THEN NoFlush
    ELSE IF disk_ok
    THEN [written |-> TRUE, rows |-> data, ret |-> "None", delivered |-> FALSE]
    ELSE NoFlush

\* The flush of parse_category: `if self.results:` save_to_excel, and
\* `if file_path:` send_excel_to_user.
flush_block(data, disk_ok) ==
    IF flush_wanted(data)
    THEN LET saved == file_service_save_to_excel(data, disk_ok)
         IN  [saved EXCEPT !.delivered = (saved.ret # "None")]
    ELSE NoFlush

\* WildberriesEvirmaParser.save_to_excel writes f'{filename}.xlsx': a path
\* as the sequence of its components.
standalone_excel_path(filename) == <<filename>>

\* send_excel_to_user of main.py: os.path.join('output', f'{filename}.xlsx')
send_excel_path(filename) == <<"output", filename>>

\* send_excel_to_user of main.py with these files on disk: a missing file
\* is reported; else the document is sent, and after a successful send the
\* deletion of the path is scheduled.
main_send_excel_to_user(filename, files, send_ok) ==
    LET file_path == send_excel_path(filename)
    IN  IF file_path \notin files
        THEN [looked_up |-> file_path, status |-> "report_file_not_found",
              delivered |-> FALSE, delete_task |-> <<>>]
        ELSE IF send_ok
        THEN [looked_up |-> file_path, status |-> "none",
              delivered |-> TRUE, delete_task |-> file_path]
        ELSE [looked_up |-> file_path, status |-> "none",
              delivered |-> FALSE, delete_task |-> <<>>]

\* The flush of generate_and_send_report of main.py:
\* `if self.parser.results:` save_to_excel(filename), then
\* send_excel_to_user(filename, user_id).
main_flush_block(filename, data, disk_ok, send_ok) ==
    LET saved == standalone_save_to_excel(data, disk_ok)
        files == IF saved.written THEN {standalone_excel_path(filename)} ELSE {}
        sent_ == main_send_excel_to_user(filename, files, send_ok)
    IN  IF flush_wanted(data)
        THEN [written |-> saved.written, rows |-> saved.rows, ret |-> saved.ret,
              delivered |-> sent_.delivered, called |-> TRUE, send_ok |-> send_ok,
              written_path |-> IF saved.written THEN standalone_excel_path(filename)
                               ELSE <<>>,
              looked_up |-> sent_.looked_up, status |-> sent_.status,
              delete_task |-> sent_.delete_task]
        ELSE [written |-> FALSE, rows |-> <<>>, ret |-> "None", delivered |-> FALSE,
              called |-> FALSE, send_ok |-> send_ok, written_path |-> <<>>,
              looked_up |-> <<>>, status |-> "none", delete_task |-> <<>>]

FlApply(op, out) ==
    /\ fl.pc = "input"
    /\ fl.op = op
    /\ fl' = [fl EXCEPT !.pc = "done", !.out = out]
    /\ UNCHANGED <<bot_vars, rs_vars, sa_vars, aux_vars>>

fl_file_service_save_to_excel ==
    FlApply("FileService.save_to_excel", file_service_save_to_excel(fl.data, fl.disk_ok))

fl_standalone_save_to_excel ==
    FlApply("WildberriesEvirmaParser.save_to_excel",
            standalone_save_to_excel(fl.data, fl.disk_ok))

fl_flush_block ==
    FlApply("parse_category flush", flush_block(fl.data, fl.disk_ok))

fl_main_flush_block ==
    \E send_ok \in BOOLEAN :
        FlApply("generate_and_send_report flush",
                main_flush_block("Shoes_analysis_1.xlsx", fl.data, fl.disk_ok, send_ok))

FlOps ==
    {"FileService.save_to_excel", "WildberriesEvirmaParser.save_to_excel",
     "parse_category flush", "generate_and_send_report flush"}

FlInit ==
    fl \in [pc : {"input"}, op : FlOps, data : FlushInputs, disk_ok : BOOLEAN,
            out : {NoFlush}]

FlNext ==
    \/ fl_file_service_save_to_excel
    \/ fl_standalone_save_to_excel
    \/ fl_flush_block
    \/ fl_main_flush_block

InitFlush == FlInit /\ BotInit /\ RsOff /\ SaOff /\ EvOff /\ AppOff /\ MbOff /\ exclusive = TRUE

SpecFlush == InitFlush /\ [][FlNext]_vars

\* ---------------------------------------------- EvirmaClient harness
\* query_evirma_api on the keyword map of any answer of the statistics
\* endpoint, and parse_evirma_response on any filtered keyword map.
EvKeywords == {"boots", "caps", "ties"}

\* The keys of a JSON object are distinct.
EvKeywordLists ==
    {ks \in SeqsUpTo(EvKeywords, MaxKeywords) :
        \A i, j \in DOMAIN ks : i # j => ks[i] # ks[j]}

\* The clusters of an entry: complete, or with a field left out.
EvClusters ==
    {[product_count |-> 5, freq_syn |-> [monthly |-> 10]],
     [freq_syn |-> [monthly |-> 10]],
     [product_count |-> 5],
     [product_count |-> 5, freq_syn |-> [yearly |-> 120]],
     [freq_syn |-> [yearly |-> 120]]}

\* The three shapes of an entry: {cluster: {...}}, {cluster: null}, null.
EvEntries == {[cluster |-> c] : c \in EvClusters} \cup {NullCluster, None}

RECURSIVE EvMaps(_, _)
EvMaps(keywords, entries) ==
    IF keywords = <<>> THEN {<<>>}
    ELSE {<<[keyword |-> Head(keywords), data |-> d]>> \o rest :
            d \in entries, rest \in EvMaps(Tail(keywords), entries)}

EvAnswered == UNION {EvMaps(ks, EvEntries) : ks \in EvKeywordLists}

EvFiltered ==
    UNION {EvMaps(ks, {[cluster |-> c] : c \in EvClusters}) : ks \in EvKeywordLists}

EvApply(op, out) ==
    /\ ev.pc = "input"
    /\ ev.op = op
    /\ ev' = [ev EXCEPT !.pc = "done", !.out = out]
    /\ UNCHANGED <<bot_vars, rs_vars, sa_vars, fl, app, mb, dl>>

ev_query_evirma_api == EvApply("query_evirma_api", query_evirma_api(ev.items))

ev_parse_evirma_response ==
    EvApply("parse_evirma_response",
            Returned(parse_evirma_response([data |-> [keywords |-> ev.items]])))

EvInit ==
    \/ ev \in [pc : {"input"}, op : {"query_evirma_api"}, items : EvAnswered,
                out : {Returned(None)}]
    \/ ev \in [pc : {"input"}, op : {"parse_evirma_response"}, items : EvFiltered,
                out : {Returned(None)}]

EvNext ==
    \/ ev_query_evirma_api
    \/ ev_parse_evirma_response

InitEvirma ==
    EvInit /\ BotInit /\ RsOff /\ SaOff /\ FlOff /\ AppOff /\ MbOff /\ exclusive = TRUE

SpecEvirma == InitEvirma /\ [][EvNext]_vars

\* ------------------------------------------------------------ app.py
\* WBCategoriesBot of app.py: the subscribers, and one report job at a
\* time (generate_and_send_report), started by /update or by the scheduler.
AppAdmins == {"a1", "a2"}

\* The statuses of generate_and_send_report, in the order of its stages.
AppStatuses ==
    <<"start", "get_categories", "hierarchy", "evirma", "merge", "save", "done">>

\* What the menu endpoint can serve: a list of categories with childs;
\* seo can be empty or missing.
AppMenus ==
    { << [name |-> "Women", seo |-> "dresses",
          childs |-> << [name |-> "Skirts", seo |-> "skirts"],
                        [name |-> "Sale", seo |-> ""] >>],
         [name |-> "Brands"] >>,
      << [name |-> "Men", seo |-> ""] >> }

RECURSIVE app_process_category(_)
RECURSIVE app_process_categories(_)
app_process_categories(categories) ==
    IF categories = <<>> THEN <<>>
    ELSE app_process_category(Head(categories)) \o app_process_categories(Tail(categories))

\* _process_category: {"SEO": category.get("seo", "")}, then the childs.
app_process_category(category) ==
    << [SEO |-> IF "seo" \in DOMAIN category THEN category.seo ELSE ""] >>
    \o (IF "childs" \in DOMAIN category THEN app_process_categories(category.childs)
        ELSE <<>>)

extract_category_hierarchy(categories) == app_process_categories(categories)

\* [cat["SEO"] for cat in category_hierarchy if cat["SEO"]]
RECURSIVE seo_keywords(_)
seo_keywords(hierarchy) ==
    IF hierarchy = <<>> THEN <<>>
    ELSE (IF Head(hierarchy).SEO # "" THEN <<Head(hierarchy).SEO>> ELSE <<>>)
         \o seo_keywords(Tail(hierarchy))

AppNoJob ==
    [single |-> NoneStr, stage |-> 0, in_except |-> FALSE, size0 |-> 0, done |-> {},
     to |-> NoneStr, categories |-> <<>>, hierarchy |-> <<>>, calls |-> <<>>,
     ran |-> <<>>, file |-> FALSE, raised_at |-> 0, send_failed |-> FALSE,
     outcome |-> "none", at_start |-> {}, stayed |-> {},
     received |-> [u \in AppAdmins |-> {}]]

\* WBCategoriesBot.__init__: the admins are subscribed.
AppInit ==
    app = [pc |-> "idle", current_users |-> AppAdmins, job |-> AppNoJob,
           reports |-> 0, changes |-> 0, faults |-> 0,
           last |-> [command |-> "none", user |-> NoneStr, before |-> {}]]

\* A handler can run: no job, or the job is suspended in an await.
AppLoopFree == app.pc \in {"idle", "status_wait", "excel_wait"}

\* `recipients`: the list [single_user_id], or the set self.current_users
\* itself (the same object, not a copy).
AppRecipients(a) ==
    IF a.job.single = NoneStr THEN a.current_users ELSE {a.job.single}

\* The job leaves generate_and_send_report.
AppEnded(a, outcome) == [a EXCEPT !.pc = "ended", !.job.outcome = outcome]

\* The `for user_id in user_ids` of send_status or send_excel_to_users is
\* over, or `if not user_ids: return` was taken.
AppLoopEnd(a, loop) ==
    IF a.job.in_except THEN AppEnded(a, "reported")
    ELSE IF loop = "excel" THEN AppEnded(a, "finished")
    ELSE [a EXCEPT !.pc = "work"]

\* send_status / send_excel_to_users up to the loop.
AppLoopStart(a, loop) ==
    IF AppRecipients(a) = {} THEN AppLoopEnd(a, loop)
    ELSE [a EXCEPT !.pc = loop \o "_next",
                   !.job.size0 = Cardinality(AppRecipients(a)),
                   !.job.done = {}]

\* An exception reaches the except clause of generate_and_send_report,
\* which sends the error status; inside that clause it propagates.
AppRaise(a) ==
    IF a.job.in_except THEN AppEnded(a, "propagated")
    ELSE AppLoopStart([a EXCEPT !.job.in_except = TRUE], "status")

AppUnchanged == UNCHANGED <<bot_vars, rs_vars, sa_vars, fl, ev, mb, dl>>

\* The users who are no admins, and all who send commands.
AppStrangers == {"x1"}
AppSenders == AppAdmins \cup AppStrangers

\* A variant whose handlers are open to everyone.
app_is_authorized_any(u) == TRUE

\* register_message_handler(..., user_id=self.config.admin_ids): the
\* commands of other users go to unauthorized_access.
app_is_authorized(u) == u \in AppAdmins

\* subscribe: a subscribed user is told so; else
\* `self.current_users.add(user_id)`.
subscribe(current_users, user_id) ==
    IF user_id \in current_users THEN current_users
    ELSE current_users \cup {user_id}

\* unsubscribe: an unsubscribed user is told so; else
\* `self.current_users.remove(user_id)`.
unsubscribe(current_users, user_id) ==
    IF user_id \notin current_users THEN current_users
    ELSE current_users \ {user_id}

\* /subscribe is handled (the set changes before the answer is awaited).
app_subscribe(u) ==
    /\ AppLoopFree
    /\ app.changes < MaxSubscriptionChanges
    /\ app_is_authorized(u)
    /\ app' = [app EXCEPT !.current_users = subscribe(@, u), !.changes = @ + 1,
                          !.last = [command |-> "subscribe", user |-> u,
                                    before |-> app.current_users]]
    /\ AppUnchanged

\* /unsubscribe is handled (the set changes before the answer is awaited).
app_unsubscribe(u) ==
    /\ AppLoopFree
    /\ app.changes < MaxSubscriptionChanges
    /\ app_is_authorized(u)
    /\ app' = [app EXCEPT !.current_users = unsubscribe(@, u), !.changes = @ + 1,
                          !.job.stayed = @ \ {u},
                          !.last = [command |-> "unsubscribe", user |-> u,
                                    before |-> app.current_users]]
    /\ AppUnchanged

\* unauthorized_access: a command of a user who is no admin is logged.
app_unauthorized_access(u) ==
    /\ AppLoopFree
    /\ app.changes < MaxSubscriptionChanges
    /\ ~app_is_authorized(u)
    /\ app' = [app EXCEPT !.changes = @ + 1,
                          !.last = [command |-> "unauthorized", user |-> u,
                                    before |-> app.current_users]]
    /\ AppUnchanged

\* generate_and_send_report entered: by manual_update with the user's id,
\* or by the scheduler with None; the first status is being sent.
AppStartReport(single, chosen) ==
    /\ app.pc = "idle"
    /\ app.reports < MaxReports
    /\ app' = AppLoopStart([app EXCEPT !.reports = @ + 1,
                                       !.job = [AppNoJob EXCEPT !.single = single,
                                                                !.stage = 1,
                                                                !.at_start = chosen,
                                                                !.stayed = chosen]],
                           "status")
    /\ AppUnchanged

app_manual_update(u) == AppStartReport(u, {u})

app_scheduled_report == AppStartReport(NoneStr, app.current_users)

\* The next step of `for user_id in user_ids`: a set that changed its size
\* since the loop began raises RuntimeError; else the loop ends or the
\* message to the next user is awaited.
AppLoopNext(loop) ==
    /\ app.pc = loop \o "_next"
    /\ IF app.job.single = NoneStr /\ Cardinality(app.current_users) # app.job.size0
       THEN app' = AppRaise(app)
       ELSE IF AppRecipients(app) \ app.job.done = {}
       THEN app' = AppLoopEnd(app, loop)
       ELSE \E u \in AppRecipients(app) \ app.job.done :
               app' = [app EXCEPT !.pc = loop \o "_wait", !.job.to = u]
    /\ AppUnchanged

app_send_status_next == AppLoopNext("status")

app_send_excel_next == AppLoopNext("excel")

\* What is being sent.
AppSending(a, loop) ==
    IF loop = "excel" THEN "file"
    ELSE IF a.job.in_except THEN "error"
    ELSE AppStatuses[a.job.stage]

\* bot.send_message / bot.send_document returned.
AppSent(loop) ==
    /\ app.pc = loop \o "_wait"
    /\ app' = [app EXCEPT !.pc = loop \o "_next",
                          !.job.done = @ \cup {app.job.to},
                          !.job.received[app.job.to] = @ \cup {AppSending(app, loop)}]
    /\ AppUnchanged

\* bot.send_message / bot.send_document raised: logged inside the loop.
AppSendFails(loop) ==
    /\ app.pc = loop \o "_wait"
    /\ app.faults < MaxFaultsApp
    /\ app' = [app EXCEPT !.pc = loop \o "_next",
                          !.job.done = @ \cup {app.job.to},
                          !.job.send_failed = TRUE,
                          !.faults = @ + 1]
    /\ AppUnchanged

app_status_sent == AppSent("status")

app_status_send_fails == AppSendFails("status")

app_document_sent == AppSent("excel")

app_document_send_fails == AppSendFails("excel")

\* The stage that follows a status.
AppNextStage(a) == AppLoopStart([a EXCEPT !.job.stage = @ + 1], "status")

\* The call that follows the status of a stage returned.
app_stage ==
    /\ app.pc = "work"
    /\ LET k == AppStatuses[app.job.stage]
           ran == [app EXCEPT !.job.ran = Append(@, k)]
       IN  CASE k = "start" -> app' = AppNextStage(app)
             [] k = "get_categories" ->
                    \E menu \in AppMenus :
                        app' = AppNextStage([ran EXCEPT !.job.categories = menu])
             [] k = "hierarchy" ->
                    app' = AppNextStage(
                              [ran EXCEPT !.job.hierarchy =
                                            extract_category_hierarchy(app.job.categories)])
             [] k = "evirma" ->
                    app' = AppNextStage(
                              [ran EXCEPT !.job.calls =
                                            Append(@, seo_keywords(app.job.hierarchy))])
             [] k = "merge" -> app' = AppNextStage(ran)
             [] k = "save" -> app' = AppNextStage([ran EXCEPT !.job.file = TRUE])
             [] k = "done" -> app' = AppLoopStart(app, "excel")
    /\ AppUnchanged

\* get_wb_categories, get_evirma_data or save_to_excel raised.
app_stage_fails ==
    /\ app.pc = "work"
    /\ AppStatuses[app.job.stage] \in {"get_categories", "evirma", "save"}
    /\ app.faults < MaxFaultsApp
    /\ app' = AppRaise([app EXCEPT !.faults = @ + 1,
                                   !.job.raised_at = app.job.stage,
                                   !.job.calls =
                                       IF AppStatuses[app.job.stage] = "evirma"
                                       THEN Append(@, seo_keywords(app.job.hierarchy))
                                       ELSE @])
    /\ AppUnchanged

\* generate_and_send_report is left.
app_report_ends ==
    /\ app.pc = "ended"
    /\ app' = [app EXCEPT !.pc = "idle", !.job = AppNoJob]
    /\ AppUnchanged

AppNext ==
    \/ \E u \in AppSenders : app_subscribe(u)
    \/ \E u \in AppSenders : app_unsubscribe(u)
    \/ \E u \in AppSenders : app_unauthorized_access(u)
    \/ \E u \in AppAdmins : app_manual_update(u)
    \/ app_scheduled_report
    \/ app_send_status_next
    \/ app_status_sent
    \/ app_status_send_fails
    \/ app_stage
    \/ app_stage_fails
    \/ app_send_excel_next
    \/ app_document_sent
    \/ app_document_send_fails
    \/ app_report_ends

InitApp ==
    AppInit /\ BotInit /\ RsOff /\ SaOff /\ FlOff /\ EvOff /\ MbOff /\ exclusive = TRUE

SpecApp == InitApp /\ [][AppNext]_vars

\* ----------------------------------------------------------- main.py
\* WBCategoriesBot of main.py, which drives WildberriesEvirmaParser of
\* src/wildberries.py; one report at a time.
TypeError == [type |-> "TypeError"]
ValueError == [type |-> "ValueError"]

\* A Python str.
Str(text) == [py |-> "str", s |-> text]

\* The JSON objects a listing page is answered with: the keys of the
\* object in their order, and what is under "data".
MbKeyLists == {<<"data">>, <<"state", "data">>, <<"metadata", "state", "data">>}

MbPageBodies(cat, page) ==
    {[keys |-> ks, body |-> b] : ks \in MbKeyLists, b \in PageBodies(cat, page, MaxNamesMain)}

\* `wb_data, log_message = value`: None cannot be unpacked; a dict is
\* iterated over its keys, of which there must be two.
unpack_pair(value) ==
    IF value = None THEN Raised(TypeError)
    ELSE IF Len(value.keys) # 2 THEN Raised(ValueError)
    ELSE Returned(<<Str(value.keys[1]), Str(value.keys[2])>>)

\* WildberriesEvirmaParser.process_products: products_data.get on a str
\* raises AttributeError.
mb_process_products(products_data) ==
    IF "py" \in DOMAIN products_data /\ products_data.py = "str"
    THEN Raised(AttributeError)
    ELSE Returned(process_products(products_data))

\* The status that the except clause reached by the exception sends.
mb_except_status(exc) ==
    IF exc.type = "HTTPError" /\ exc.status = 429 THEN "max_products_parsed"
    ELSE "parsing_error"

MbNoRun ==
    [user |-> "nobody", url |-> <<>>, category |-> None, page |-> 0, tries |-> 0,
     wb_data |-> None, log_message |-> None, exc |-> None, ret |-> "none",
     then |-> "none", text |-> "none", statuses |-> <<>>, reqs |-> <<>>,
     named |-> <<>>, shown |-> <<>>]

\* WBCategoriesBot.__init__ and WildberriesEvirmaParser.__init__
MbInit ==
    mb = [pc |-> "idle", waiting_for_url |-> {}, log_messages |-> [u \in Users |-> None],
          catalog_data |-> None, results |-> <<>>, run |-> MbNoRun,
          answer |-> "none", runs |-> 0, faults |-> 0]

MbUnchanged == UNCHANGED <<bot_vars, rs_vars, sa_vars, fl, ev, app, dl>>

\* send_status up to its await.
MbSendStatus(m, text, then) ==
    [m EXCEPT !.pc = "status_wait", !.run.text = text, !.run.then = then]

\* The event loop is free: no report is running, or the running one is
\* suspended in a Telegram call.
MbLoopFree == mb.pc \in {"idle", "status_wait", "log_send_wait"}

\* manual_parse, and handle_text on "Парсить"
mb_manual_parse(u) ==
    /\ MbLoopFree
    /\ u \notin mb.waiting_for_url
    /\ mb' = [mb EXCEPT !.waiting_for_url = @ \cup {u}]
    /\ MbUnchanged

\* handle_text on "Отмена" from a user in URL-input mode.
mb_handle_cancel(u) ==
    /\ MbLoopFree
    /\ u \in mb.waiting_for_url
    /\ mb' = [mb EXCEPT !.waiting_for_url = @ \ {u}]
    /\ MbUnchanged

\* handle_text on a URL of the right format: the answer, then
\* generate_and_send_report up to the await of its first status.  A user
\* sends the next URL after the end of the report in progress.
mb_handle_url(u, text) ==
    /\ mb.pc = "idle"
    /\ mb.runs < MaxRunsMain
    /\ u \in mb.waiting_for_url
    /\ url_pattern_matches(text)
    /\ mb' = MbSendStatus([mb EXCEPT !.runs = @ + 1,
                                     !.run = [MbNoRun EXCEPT !.user = u, !.url = text]],
                          "start", "resolve")
    /\ MbUnchanged

\* bot.send_message of send_status returned.
mb_status_sent ==
    /\ mb.pc = "status_wait"
    /\ mb' = [mb EXCEPT !.pc = mb.run.then,
                        !.run.statuses = Append(@, [text |-> mb.run.text, ok |-> TRUE])]
    /\ MbUnchanged

\* bot.send_message of send_status raised: logged.
mb_status_send_fails ==
    /\ mb.pc = "status_wait"
    /\ mb.faults < MaxFaultsMain
    /\ mb' = [mb EXCEPT !.pc = mb.run.then, !.faults = @ + 1,
                        !.run.statuses = Append(@, [text |-> mb.run.text, ok |-> FALSE])]
    /\ MbUnchanged

\* `self.parser.results = []`, then fetch_wb_catalog raises through
\* find_category_by_url into the inner try.
mb_fetch_wb_catalog_fails ==
    /\ mb.pc = "resolve"
    /\ mb.catalog_data = None
    /\ mb.faults < MaxFaultsMain
    /\ \E e \in CatalogFaults \cup {HTTPError(429)} :
          mb' = [mb EXCEPT !.pc = "except", !.results = <<>>, !.faults = @ + 1,
                           !.run.exc = e,
                           !.run.reqs = Append(@, L("catalog", 0, StatusOf(e)))]
    /\ MbUnchanged

\* `self.parser.results = []`, then find_category_by_url returns:
\* `if not category: return False`, else the page loop starts.
mb_find_category_by_url ==
    /\ mb.pc = "resolve"
    /\ LET fetched == mb.catalog_data = None
           catalog == IF fetched THEN BotCatalog ELSE mb.catalog_data
           req == IF fetched THEN <<L("catalog", 0, 200)>> ELSE <<>>
           found == find_in_catalog(catalog, mb.run.url)
           m == [mb EXCEPT !.catalog_data = catalog, !.results = <<>>,
                           !.run.reqs = @ \o req]
       IN  IF found.kind = "raise"
           THEN mb' = [m EXCEPT !.pc = "except", !.run.exc = found.exc]
           ELSE IF found.val = None
           THEN mb' = [m EXCEPT !.pc = "finally", !.run.ret = "False"]
           ELSE mb' = [m EXCEPT !.pc = "fetch", !.run.category = found.val,
                                !.run.page = 1, !.run.tries = 0]
    /\ MbUnchanged

\* One attempt of scrape_wb_page under @retry raised (not status 429).
mb_scrape_wb_page_fails ==
    /\ mb.pc = "fetch"
    /\ mb.faults < MaxFaultsMain
    /\ \E e \in StandaloneListingFaults :
          LET run == sa_after_failed_try(
                        [mb.run EXCEPT !.reqs = Append(@, L("page", mb.run.page, StatusOf(e)))])
          IN  mb' = [mb EXCEPT !.faults = @ + 1,
                               !.pc = IF sa_gives_up(mb.run) THEN "except" ELSE "fetch",
                               !.run = IF sa_gives_up(mb.run)
                                       THEN [run EXCEPT !.exc = e] ELSE run]
    /\ MbUnchanged

\* scrape_wb_page catches status 429 and returns None, which
\* `wb_data, log_message = ...` cannot unpack.
mb_scrape_wb_page_429 ==
    /\ mb.pc = "fetch"
    /\ LET unpacked == unpack_pair(None)
       IN  mb' = [mb EXCEPT !.pc = "except",
                           !.run.exc = unpacked.exc,
                           !.run.tries = 0,
                           !.run.reqs = Append(@, L("page", mb.run.page, 429))]
    /\ MbUnchanged

\* scrape_wb_page returned response.json(); the assignment unpacks it, and
\* update_log_message goes up to its await.
mb_scrape_wb_page ==
    /\ mb.pc = "fetch"
    /\ \E value \in MbPageBodies(mb.run.category.name, mb.run.page) :
          LET unpacked == unpack_pair(value)
              names == Len(process_products(value.body))
              m == [mb EXCEPT !.run.tries = 0,
                              !.run.reqs = Append(@, L("page", mb.run.page, 200)),
                              !.run.named = Append(@, names)]
          IN  IF unpacked.kind = "raise"
              THEN mb' = [m EXCEPT !.pc = "except", !.run.exc = unpacked.exc]
              ELSE IF mb.log_messages[mb.run.user] = None
              THEN mb' = [m EXCEPT !.pc = "log_send_wait",
                                   !.run.wb_data = unpacked.val[1],
                                   !.run.log_message = unpacked.val[2]]
              ELSE mb' = [m EXCEPT !.pc = "log_edit_wait",
                                   !.run.wb_data = unpacked.val[1],
                                   !.run.log_message = unpacked.val[2],
                                   !.log_messages[mb.run.user].text =
                                       Append(@, unpacked.val[2])]
    /\ MbUnchanged

\* bot.send_message of update_log_message returned: the buffer is created.
mb_log_message_sent ==
    /\ mb.pc = "log_send_wait"
    /\ mb' = [mb EXCEPT !.pc = "process",
                        !.log_messages[mb.run.user] = [text |-> <<mb.run.log_message>>],
                        !.run.shown = <<mb.run.log_message>>]
    /\ MbUnchanged

\* bot.send_message of update_log_message raised: nothing catches it there.
mb_log_message_send_fails ==
    /\ mb.pc = "log_send_wait"
    /\ mb.faults < MaxFaultsMain
    /\ mb' = [mb EXCEPT !.pc = "except", !.faults = @ + 1,
                        !.run.exc = TelegramAPIError]
    /\ MbUnchanged

\* products = self.parser.process_products(wb_data), and what follows it
\* up to the next await.
mb_process_page ==
    /\ mb.pc = "process"
    /\ LET products == mb_process_products(mb.run.wb_data)
       IN  IF products.kind = "raise"
           THEN mb' = [mb EXCEPT !.pc = "except", !.run.exc = products.exc]
           ELSE IF products.val = <<>>
           THEN mb' = MbSendStatus(mb, "no_products_on_page", "flush")
           ELSE mb' = [mb EXCEPT !.pc = "enrich"]
    /\ MbUnchanged

\* The except clauses of the inner try: the status they send first.
mb_handle_exception ==
    /\ mb.pc = "except"
    /\ mb' = MbSendStatus([mb EXCEPT !.run.exc = None],
                          mb_except_status(mb.run.exc), "after_except")
    /\ MbUnchanged

\* The except clauses after their status: `if self.parser.results:` the
\* flush, then `return True`.
mb_after_except ==
    /\ mb.pc = "after_except"
    /\ IF flush_wanted(mb.results)
       THEN mb' = [mb EXCEPT !.pc = "flush"]
       ELSE mb' = [mb EXCEPT !.pc = "finally", !.run.ret = "True"]
    /\ MbUnchanged

\* The finally clause of the inner try sends the elapsed time.
mb_finally ==
    /\ mb.pc = "finally"
    /\ mb' = MbSendStatus(mb, "total_time", "outer_finally")
    /\ MbUnchanged

\* The finally clause of the outer try: clear_log_messages.
mb_outer_finally ==
    /\ mb.pc = "outer_finally"
    /\ mb' = [mb EXCEPT !.pc = "handler_tail", !.log_messages[mb.run.user] = None]
    /\ MbUnchanged

\* handle_text after generate_and_send_report: on success the user
\* leaves URL-input mode (`del` raises KeyError when 'Отмена' came during
\* the report); the answer.
mb_handler_tail ==
    /\ mb.pc = "handler_tail"
    /\ mb' = [mb EXCEPT !.pc = "idle",
                        !.waiting_for_url = IF mb.run.ret = "True"
                                            THEN @ \ {mb.run.user} ELSE @,
                        !.answer = IF mb.run.ret # "True" THEN "not_found"
                                   ELSE IF mb.run.user \in mb.waiting_for_url
                                   THEN "finished" ELSE "KeyError",
                        !.run = MbNoRun]
    /\ MbUnchanged

MbNext ==
    \/ \E u \in Users : mb_manual_parse(u)
    \/ \E u \in Users : mb_handle_cancel(u)
    \/ \E u \in Users, text \in UrlTexts : mb_handle_url(u, text)
    \/ mb_status_sent
    \/ mb_status_send_fails
    \/ mb_fetch_wb_catalog_fails
    \/ mb_find_category_by_url
    \/ mb_scrape_wb_page_fails
    \/ mb_scrape_wb_page_429
    \/ mb_scrape_wb_page
    \/ mb_log_message_sent
    \/ mb_log_message_send_fails
    \/ mb_process_page
    \/ mb_handle_exception
    \/ mb_after_except
    \/ mb_finally
    \/ mb_outer_finally
    \/ mb_handler_tail

InitMain ==
    MbInit /\ dl = Off /\ BotInit /\ RsOff /\ SaOff /\ FlOff /\ EvOff /\ AppOff
           /\ exclusive = TRUE

SpecMain == InitMain /\ [][MbNext]_vars

\* ------------------------------------------------- deletion tasks
\* FileService of the bot: the report files in the output directory and the
\* tasks created by send_excel_to_user to delete them.

\* f"{category['name']}_analysis_{int(time.time())}" in OUTPUT_DIR.
DlPaths == {<<"output", "Shoes_analysis", second>> : second \in 1..MaxSeconds}

\* A variant whose except clause is missing.
delete_file_after_delay_uncaught(files, file_path, remove_ok) ==
    IF file_path \in files
    THEN IF remove_ok
         THEN [files |-> files \ {file_path}, log |-> "file_deleted", result |-> "returned"]
         ELSE [files |-> files, log |-> "none", result |-> "raised"]
    ELSE [files |-> files, log |-> "file_not_found_for_deletion", result |-> "returned"]

\* FileService.delete_file_after_delay once asyncio.sleep is over:
\* os.remove when the file exists, a warning when it does not, and the
\* exception of os.remove logged.
delete_file_after_delay(files, file_path, remove_ok) ==
    IF file_path \in files
    THEN IF remove_ok
         THEN [files |-> files \ {file_path}, log |-> "file_deleted", result |-> "returned"]
         ELSE [files |-> files, log |-> "failed_to_delete", result |-> "returned"]
    ELSE [files |-> files, log |-> "file_not_found_for_deletion", result |-> "returned"]

DlNoSend == [path |-> <<>>, found |-> FALSE]

\* FileService.__init__: the output directory holds no report.
DlInit ==
    dl = [pc |-> "idle", files |-> {}, tasks |-> <<>>, send |-> DlNoSend,
          sends |-> <<>>, flushes |-> 0]

DlUnchanged == UNCHANGED <<bot_vars, rs_vars, sa_vars, fl, ev, app, mb>>

\* A flush with a non-empty accumulator: save_to_excel writes the file
\* (again, when a flush of the same second wrote it), and
\* send_excel_to_user looks for it and suspends in bot.send_document, or
\* in bot.send_message when it is not there.
dl_flush(file_path) ==
    /\ dl.pc = "idle"
    /\ dl.flushes < MaxDeleteFlushes
    /\ LET files == dl.files \cup {file_path}
       IN  dl' = [dl EXCEPT !.pc = "sending", !.files = files, !.flushes = @ + 1,
                           !.send = [path |-> file_path, found |-> file_path \in files]]
    /\ DlUnchanged

\* bot.send_document returned: asyncio.create_task(delete_file_after_delay).
dl_document_sent ==
    /\ dl.pc = "sending"
    /\ dl' = [dl EXCEPT !.pc = "idle", !.send = DlNoSend,
                        !.sends = Append(@, dl.send),
                        !.tasks = IF dl.send.found
                                  THEN Append(@, [path |-> dl.send.path, pc |-> "sleeping",
                                                  log |-> "none"])
                                  ELSE @]
    /\ DlUnchanged

\* bot.send_document raised: logged, no deletion task.
dl_document_send_fails ==
    /\ dl.pc = "sending"
    /\ dl' = [dl EXCEPT !.pc = "idle", !.send = DlNoSend, !.sends = Append(@, dl.send)]
    /\ DlUnchanged

\* The sleep of deletion task i is over while the loop is free (no run, or
\* a run suspended in its send); os.remove succeeds or raises.
dl_delete_file_after_delay(i, remove_ok) ==
    /\ i \in DOMAIN dl.tasks
    /\ dl.tasks[i].pc = "sleeping"
    /\ LET out == delete_file_after_delay(dl.files, dl.tasks[i].path, remove_ok)
       IN  dl' = [dl EXCEPT !.files = out.files,
                           !.tasks[i].pc = out.result,
                           !.tasks[i].log = out.log]
    /\ DlUnchanged

DlNext ==
    \/ \E file_path \in DlPaths : dl_flush(file_path)
    \/ dl_document_sent
    \/ dl_document_send_fails
    \/ \E i \in 1..MaxDeleteFlushes + 1, remove_ok \in BOOLEAN :
          dl_delete_file_after_delay(i, remove_ok)

InitDelete ==
    DlInit /\ mb = Off /\ BotInit /\ RsOff /\ SaOff /\ FlOff /\ EvOff /\ AppOff
           /\ exclusive = TRUE

SpecDelete == InitDelete /\ [][DlNext]_vars

\* ======================================================= properties
\* ------------------------------------------------------- resolution
Resolved == rs_pc = "done"

ShoesDescriptor ==
    [name |-> "Shoes", shard |-> "shoes-shard",
     url |-> <<"/catalog/shoes">>, query |-> "q=1"]

\* The URL with the scheme/host prefix stripped: a leading host is removed,
\* nothing else.
StripHostPrefix(url) ==
    IF url # <<>> /\ Head(url) = HOST THEN Tail(url) ELSE url

StoredAt(catalog, path) ==
    LET categories == process_node(catalog)
    IN  {i \in DOMAIN categories : categories[i].url = path}

\* C9: on a catalog whose nodes all carry name and url, find_category_by_url
\* returns a descriptor only when the URL with its host prefix stripped
\* equals a stored path, and then a descriptor of that path; for any other
\* URL (trailing slash, query parameter, text before the host) it returns
\* None.
C9_ExactMatchOnly ==
    (Resolved /\ ~RaisesKeyError(rs_catalog)) =>
        LET path == StripHostPrefix(rs_url)
        IN  /\ rs_result.kind = "return"
            /\ IF StoredAt(rs_catalog, path) = {}
               THEN rs_result.val = None
               ELSE /\ rs_result.val # None
                    /\ rs_result.val.url = path

\* C10 as stated: Scenario A, the root node without url and the host
\* example.com, resolves to the Shoes descriptor.
C10_ScenarioAAsStated ==
    (Resolved /\ rs_catalog = ScenarioATree
              /\ rs_url = <<OTHERHOST, "/catalog/shoes">>) =>
        rs_result = Returned(ShoesDescriptor)

\* C10: with a url on the root node and the host www.wildberries.ru the
\* Shoes path resolves to the Shoes descriptor (name, shard, url, query);
\* with the root node lacking url the resolution raises KeyError whatever
\* the URL, and under the host example.com nothing is found.
C10_ScenarioA ==
    Resolved =>
        /\ (rs_catalog = RootedTree /\ rs_url = <<HOST, "/catalog/shoes">>)
              => rs_result = Returned(ShoesDescriptor)
        /\ rs_catalog = ScenarioATree => rs_result = Raised(KeyError)
        /\ (rs_catalog = RootedTree /\ rs_url = <<OTHERHOST, "/catalog/shoes">>)
              => rs_result = Returned(None)

C10_ShoesResolved ==
    /\ Resolved
    /\ rs_catalog = RootedTree
    /\ rs_url = <<HOST, "/catalog/shoes">>
    /\ rs_result.kind = "return"

\* ------------------------------------------------- runs of the bot
\* parse_category of task t has returned (or raised) and its finally
\* clause has run; handle_text has not yet gone on.
RunOver(t) == task[t].pc = "handler_tail"

\* parse_category of task t has been entered.
InRun(t) == task[t].pc \notin {"idle", "answer_start"}

RECURSIVE Flatten(_)
Flatten(seqs) == IF seqs = <<>> THEN <<>> ELSE Head(seqs) \o Flatten(Tail(seqs))

\* The rows the page/enrich cycles of task t's run produced, in order.
OwnRows(t) == Flatten(hist[t].produced)

Last(s) == s[Len(s)]

IsPrefix(s, r) == Len(s) <= Len(r) /\ SubSeq(r, 1, Len(s)) = s

Logged(t, msg) == \E i \in DOMAIN hist[t].tlog : hist[t].tlog[i].msg = msg

\* The last request of task t's run was of this kind and failed with
\* something else than a well-formed answer.
LastRequestFailed(t, kinds) ==
    /\ hist[t].reqs # <<>>
    /\ Last(hist[t].reqs).msg \in kinds
    /\ Last(hist[t].reqs).n # 200

\* C1: when a run that produced at least one row is over, however it ended,
\* save_to_excel has been called, and every call received all the rows the
\* run had accumulated.
C1_FlushOnEveryEnding ==
    \A t \in Tasks :
        (RunOver(t) /\ OwnRows(t) # <<>>) =>
            /\ hist[t].saved # <<>>
            /\ \A i \in DOMAIN hist[t].saved : hist[t].saved[i].rows = OwnRows(t)

\* A run with rows that a failed request, other than a 429, ended.
C1_ErrorEndingFlushed ==
    \E t \in Tasks :
        /\ RunOver(t)
        /\ OwnRows(t) # <<>>
        /\ LastRequestFailed(t, {"page", "evirma"})
        /\ Last(hist[t].reqs).n # 429
        /\ hist[t].saved # <<>>

\* C2: a run with a non-empty accumulator calls save_to_excel exactly
\* once, and send_excel_to_user once when the file was written and never
\* twice, whichever stop condition ended the run.
C2_FlushedExactlyOnce ==
    \A t \in Tasks :
        (RunOver(t) /\ OwnRows(t) # <<>>) =>
            /\ Len(hist[t].saved) = 1
            /\ Len(hist[t].sent) <= 1
            /\ hist[t].saved[1].ok => Len(hist[t].sent) = 1

\* C3: when runs of different requesters interleave, every file a run
\* saves holds exactly the rows of that run's own pages, in order, and a
\* run that produced rows saves them.
C3_RunsShareOnlyCatalog ==
    \A t \in Tasks :
        /\ \A i \in DOMAIN hist[t].saved : hist[t].saved[i].rows = OwnRows(t)
        /\ (RunOver(t) /\ OwnRows(t) # <<>>) => hist[t].saved # <<>>

\* Page 1 gave rows and the listing request of page 2 was answered 429.
RateLimitedOnPageTwo(t) ==
    /\ Len(hist[t].produced) = 1
    /\ hist[t].produced[1] # <<>>
    /\ Last(hist[t].reqs) = L("page", 2, 429)

\* C4: when page 1 gave rows and the listing request of page 2 is answered
\* 429, the run calls save_to_excel once with page 1's rows, sends that
\* file once when it was written, logs the rate limit, and returns True.
C4_RateLimitKeepsPageOne ==
    \A t \in Tasks :
        (RunOver(t) /\ RateLimitedOnPageTwo(t)) =>
            /\ Len(hist[t].saved) = 1
            /\ hist[t].saved[1].rows = hist[t].produced[1]
            /\ Len(hist[t].sent) = (IF hist[t].saved[1].ok THEN 1 ELSE 0)
            /\ \A i \in DOMAIN hist[t].sent : hist[t].sent[i].rows = hist[t].produced[1]
            /\ Logged(t, "maximum_products_parsed_429")
            /\ task[t].ret = "True"

C4_PageOneDelivered ==
    \E t \in Tasks :
        /\ RunOver(t)
        /\ RateLimitedOnPageTwo(t)
        /\ hist[t].saved[1].ok
        /\ hist[t].sent # <<>>
        /\ hist[t].sent[1].ok

\* The run's first resolution had no cached catalog and the download
\* failed.
CatalogDownloadFailed(t) ==
    /\ hist[t].reqs # <<>>
    /\ hist[t].reqs[1].msg = "catalog"
    /\ hist[t].reqs[1].n # 200

\* parse_category of the standalone script has returned to main().
SaRunOver == sa_pc = "input" /\ sa_run.reqs # <<>>

\* The run stopped on a request that failed, after its retries, with
\* something else than status 429.
SaStoppedOnError ==
    /\ Last(sa_run.reqs).msg \in {"page", "evirma"}
    /\ Last(sa_run.reqs).n \notin {200, 429}
    /\ sa_run.out = <<"parsing_error", "total_time">>

\* C5: when a run of the standalone parse_category that has accumulated
\* rows is stopped by a page fetch or an enrichment call failing with
\* something else than status 429, the rows have been saved when the run
\* is over.
C5_StandaloneErrorFlushes ==
    (SaRunOver /\ SaStoppedOnError /\ sa_run.produced # <<>> /\ sa_results # <<>>) =>
        /\ sa_run.saved # <<>>
        /\ Last(sa_run.saved).rows = sa_results

\* C6: a run whose catalog download failed does not return True.
C6_CatalogFailureSurfaces ==
    \A t \in Tasks :
        (RunOver(t) /\ CatalogDownloadFailed(t)) => task[t].ret # "True"

\* C7: no exception leaves parse_category; when the run is over it has
\* returned True or False.
C7_AlwaysBoolean ==
    \A t \in Tasks :
        /\ task[t].ret # "raised"
        /\ RunOver(t) => task[t].ret \in {"True", "False"}

\* A run that a failed listing or enrichment request ended.
C7_FailureReturnedBoolean ==
    \E t \in Tasks :
        /\ RunOver(t)
        /\ LastRequestFailed(t, {"page", "evirma"})
        /\ task[t].ret = "True"

\* C8: during a run the accumulator is the concatenation, in order, of the
\* rows its page/enrich cycles produced, and a step of the run only ever
\* appends to it.
C8_AppendOnly ==
    /\ [](\A t \in Tasks : InRun(t) => results = OwnRows(t))
    /\ [][\A t \in Tasks : (InRun(t) /\ InRun(t)') => IsPrefix(results, results')]_vars

\* Two cycles have produced rows.
C8_TwoCycles ==
    \E t \in Tasks :
        /\ InRun(t)
        /\ Len(hist[t].produced) = 2
        /\ hist[t].produced[1] # <<>>
        /\ hist[t].produced[2] # <<>>
        /\ Len(results) = Len(hist[t].produced[1]) + Len(hist[t].produced[2])

\* ------------------------------------------------- catalog cache
\* C11 as stated: the catalog endpoint is requested at most once in all,
\* failed requests included.
C11_OneCatalogRequestInAll ==
    catalog_requests.ok + catalog_requests.failed <= 1

\* C11: the catalog endpoint is requested only while the cache is empty;
\* at most one request is answered, after which the cache is filled and no
\* further request is made; a failed request leaves the cache empty, and
\* the next resolution requests again.
C11_OneCatalogDownload ==
    /\ [](/\ catalog_requests.ok <= 1
          /\ (catalog_requests.ok = 1) <=> (catalog_data # None)
          /\ \A t \in Tasks : task[t].pc = "catalog_wait" => catalog_data = None)
    /\ [][catalog_requests' # catalog_requests => catalog_data = None]_vars

\* A download that succeeded after an earlier one had failed.
C11_RequestedAgainAfterFailure ==
    /\ catalog_requests.failed >= 1
    /\ catalog_requests.ok = 1

\* C12: when runs interleave, the task that found the cache empty keeps
\* the event loop until the request has returned and the catalog is
\* assigned: at most one request is on its way at a time, and at most one
\* download succeeds.
C12_NoDuplicateDownload ==
    /\ catalog_requests.ok <= 1
    /\ \A t \in Tasks : task[t].pc = "catalog_wait" => cur = t
    /\ Cardinality({t \in Tasks : task[t].pc = "catalog_wait"}) <= 1

\* A request is on its way while another run has started and has not yet
\* looked at the cache.
C12_DownloadWhileOtherRunWaits ==
    \E t1 \in Tasks, t2 \in Tasks :
        /\ t1 # t2
        /\ task[t1].pc = "catalog_wait"
        /\ task[t2].pc = "answer_start"
        /\ catalog_data = None

\* ------------------------------------------------- the page loop
\* The listing and enrichment requests of task t's run, in order.
RECURSIVE WithoutCatalog(_)
WithoutCatalog(reqs) ==
    IF reqs = <<>> THEN <<>>
    ELSE (IF Head(reqs).msg = "catalog" THEN <<>> ELSE <<Head(reqs)>>)
         \o WithoutCatalog(Tail(reqs))

PageRequests(t) ==
    {i \in DOMAIN hist[t].reqs : hist[t].reqs[i].msg = "page"}

\* C13: a run that stopped because MAX_PAGES pages had been processed and
\* delivered its rows does not log the reason that a run stopped by an
\* empty page logs.
C13_BudgetReasonDiffers ==
    \A t \in Tasks :
        (RunOver(t) /\ Len(hist[t].produced) = MAX_PAGES /\ hist[t].sent # <<>>) =>
            ~Logged(t, finished_message("empty_page"))

\* C14: a run requests no listing page numbered above MAX_PAGES and makes
\* at most MAX_PAGES listing requests; once MAX_PAGES pages are enriched
\* it is at the flush or behind it.
C14_PageBudget ==
    \A t \in Tasks :
        /\ \A i \in PageRequests(t) : hist[t].reqs[i].page <= MAX_PAGES
        /\ Cardinality(PageRequests(t)) <= MAX_PAGES
        /\ task[t].page <= MAX_PAGES
        /\ Len(hist[t].produced) <= MAX_PAGES
        /\ Len(hist[t].produced) = MAX_PAGES =>
               task[t].pc \in {"sleep", "flush", "send_wait", "flush_end", "finally",
                               "handler_tail"}

\* MAX_PAGES pages are enriched and the run is at the flush.
C14_BudgetUsedUp ==
    \E t \in Tasks :
        /\ Len(hist[t].produced) = MAX_PAGES
        /\ Cardinality(PageRequests(t)) = MAX_PAGES
        /\ task[t].pc = "flush"

\* C15: the requests of a run alternate: listing page 1, enrichment of
\* page 1, listing page 2, ...; page n+1 is requested only after the
\* enrichment of page n was answered and its rows were appended, and an
\* enrichment is requested only after its page was received.
C15_PagesInOrder ==
    \A t \in Tasks :
        LET R == WithoutCatalog(hist[t].reqs)
        IN  \A i \in DOMAIN R :
                IF i % 2 = 1
                THEN /\ R[i].msg = "page"
                     /\ R[i].page = (i + 1) \div 2
                     /\ i > 1 => /\ R[i - 1] = L("evirma", R[i].page - 1, 200)
                                 /\ Len(hist[t].produced) >= R[i].page - 1
                                 /\ hist[t].produced[R[i].page - 1] # <<>>
                                 /\ IsPrefix(Flatten(SubSeq(hist[t].produced, 1, R[i].page - 1)),
                                             results)
                ELSE /\ R[i].msg = "evirma"
                     /\ R[i - 1] = L("page", R[i].page, 200)

\* Page 2 has been requested after the enrichment of page 1 gave rows.
C15_SecondPageRequested ==
    \E t \in Tasks :
        /\ Len(WithoutCatalog(hist[t].reqs)) >= 3
        /\ WithoutCatalog(hist[t].reqs)[3].page = 2
        /\ hist[t].produced # <<>>
        /\ hist[t].produced[1] # <<>>

\* ------------------------------------------------- the finalizer
TimesLogged(t, msg) ==
    Cardinality({i \in DOMAIN hist[t].tlog : hist[t].tlog[i].msg = msg})

\* C16: while a run is in progress the elapsed time has not been logged;
\* when the run is over, whatever its exit (category not found, normal
\* end, rate limit, HTTP error, other exception), it has been logged
\* exactly once, as the last line, after every save and delivery.
C16_ElapsedTimeOnce ==
    \A t \in Tasks :
        IF RunOver(t)
        THEN /\ TimesLogged(t, "total_parsing_time") = 1
             /\ Last(hist[t].tlog).msg = "total_parsing_time"
        ELSE TimesLogged(t, "total_parsing_time") = 0

\* A run that a failed request ended has delivered its rows and then
\* logged the time.
C16_TimeLoggedAfterDelivery ==
    \E t \in Tasks :
        /\ RunOver(t)
        /\ LastRequestFailed(t, {"page", "evirma"})
        /\ hist[t].sent # <<>>
        /\ Last(hist[t].tlog).msg = "total_parsing_time"

\* ------------------------------------------------- empty accumulator
\* C17: a flush writes a file only from rows, and the file holds exactly
\* them: save_to_excel of either implementation called with zero rows
\* writes nothing, and the flush of parse_category on an empty accumulator
\* writes nothing and delivers nothing.
C17_NoFileFromNoRows ==
    fl.pc = "done" =>
        /\ fl.data = <<>> => (~fl.out.written /\ ~fl.out.delivered /\ fl.out.ret = "None")
        /\ fl.out.written => (fl.out.rows = fl.data /\ fl.data # <<>>)
        /\ fl.out.delivered => fl.out.written

\* save_to_excel of FileService has been called with zero rows.
C17_CalledWithNoRows ==
    /\ fl.pc = "done"
    /\ fl.op = "FileService.save_to_excel"
    /\ fl.data = <<>>
    /\ fl.disk_ok

\* ------------------------------------------------- cancelling a run
\* C18: a run whose user sent 'Отмена' while it was between two page
\* iterations requests no page after the one it had finished.
C18_CancelStopsPaging ==
    \A t \in Tasks :
        hist[t].cancelled > 0 =>
            \A i \in DOMAIN hist[t].reqs :
                hist[t].reqs[i].msg = "page" => hist[t].reqs[i].page <= hist[t].cancelled

\* ------------------------------------------------- removal of files
\* C19: for every report file that was written and handed to
\* send_excel_to_user, sent or not, the task that deletes it was created.
C19_DeletionAlwaysScheduled ==
    \A t \in Tasks :
        \A i \in DOMAIN hist[t].sent : hist[t].sent[i].delete_task

\* ------------------------------------------------- a failed save
SavesWritten(t) == Cardinality({i \in DOMAIN hist[t].saved : hist[t].saved[i].ok})

SaveFailed(t) == \E i \in DOMAIN hist[t].saved : ~hist[t].saved[i].ok

\* C20: a save_to_excel whose writer fails raises nothing into
\* parse_category and is followed by no delivery: the run goes on from the
\* end of that flush with the exception it was handling, if any, unchanged;
\* deliveries are attempted only for files that were written; and the run
\* ends with the boolean it returns after a flush.
C20_FailedSaveIsSkipped ==
    /\ [](\A t \in Tasks :
            /\ Len(hist[t].sent) <= SavesWritten(t)
            /\ task[t].pc = "send_wait" => Last(hist[t].saved).ok
            /\ (RunOver(t) /\ SaveFailed(t)) =>
                   (task[t].ret = "True" /\ Len(hist[t].sent) = SavesWritten(t)))
    /\ [][\A t \in Tasks :
            (/\ Len(hist[t].saved') = Len(hist[t].saved) + 1
             /\ ~Last(hist[t].saved').ok) =>
                (/\ task[t].pc' = "flush_end"
                 /\ task[t].exc' = task[t].exc
                 /\ hist[t].sent' = hist[t].sent)]_vars

\* A run whose only save failed is over: nothing was delivered and it
\* returned True.
C20_RunOverAfterFailedSave ==
    \E t \in Tasks :
        /\ RunOver(t)
        /\ Len(hist[t].saved) = 1
        /\ ~hist[t].saved[1].ok
        /\ hist[t].sent = <<>>
        /\ task[t].ret = "True"

\* ------------------------------------------------- EvirmaClient
\* The entry has a cluster that is not null.
HasCluster(entry) == entry.data # None /\ entry.data.cluster # None

RECURSIVE WithCluster(_)
WithCluster(items) ==
    IF items = <<>> THEN <<>>
    ELSE (IF HasCluster(Head(items)) THEN <<Head(items)>> ELSE <<>>)
         \o WithCluster(Tail(items))

\* C21: on every keyword map whose entries are of the three shapes,
\* query_evirma_api returns, without raising, exactly the entries with a
\* non-null cluster, and returns None exactly when there is none.
C21_FilterNeverRaises ==
    (ev.pc = "done" /\ ev.op = "query_evirma_api") =>
        /\ ev.out.kind = "return"
        /\ ev.out.val = None <=> WithCluster(ev.items) = <<>>
        /\ ev.out.val # None => ev.out.val.data.keywords = WithCluster(ev.items)

\* C22: parse_evirma_response gives one row per entry of a filtered
\* keyword map, in the order of the map, named by the keyword, with the
\* cluster's product_count and freq_syn.monthly, 0 standing for a field
\* that is absent.
C22_OneRowPerEntry ==
    (ev.pc = "done" /\ ev.op = "parse_evirma_response") =>
        /\ ev.out.kind = "return"
        /\ Len(ev.out.val) = Len(ev.items)
        /\ \A i \in DOMAIN ev.items :
              LET c == ev.items[i].data.cluster
                  row == ev.out.val[i]
              IN  /\ row.name = ev.items[i].keyword
                  /\ row.product_count =
                        (IF c \in {[product_count |-> 5, freq_syn |-> [monthly |-> 10]],
                                   [product_count |-> 5],
                                   [product_count |-> 5, freq_syn |-> [yearly |-> 120]]}
                         THEN 5 ELSE 0)
                  /\ row.monthly =
                        (IF c \in {[product_count |-> 5, freq_syn |-> [monthly |-> 10]],
                                   [freq_syn |-> [monthly |-> 10]]}
                         THEN 10 ELSE 0)

\* Two entries in map order, the second without product_count and
\* without monthly, have been made into rows.
C22_RowsWithDefaults ==
    /\ ev.pc = "done"
    /\ ev.op = "parse_evirma_response"
    /\ Len(ev.items) = 2
    /\ ev.items[1].data.cluster = [product_count |-> 5, freq_syn |-> [monthly |-> 10]]
    /\ ev.items[2].data.cluster = [freq_syn |-> [yearly |-> 120]]

\* ------------------------------------------------- the result of a run
\* The URL names a node of the catalog the endpoint serves.
InCatalog(url) ==
    /\ Len(url) = 2
    /\ url[2] \in {"/catalog/dom-i-dacha/vannaya/aksessuary",
                   "/catalog/dom-i-dacha/vannaya/mebel"}

CatalogUnavailable(t) ==
    \E i \in DOMAIN hist[t].reqs :
        hist[t].reqs[i].msg = "catalog" /\ hist[t].reqs[i].n # 200

\* C23: a run returns False exactly when the catalog was at hand and holds
\* no node for the URL; such a run requested no page, produced no row and
\* saved and sent nothing; every other run returns True.
C23_FalseOnlyWhenNotFound ==
    \A t \in Tasks :
        RunOver(t) =>
            /\ task[t].ret \in {"True", "False"}
            /\ task[t].ret = "False" <=>
                  (~InCatalog(task[t].url) /\ ~CatalogUnavailable(t))
            /\ task[t].ret = "False" =>
                  /\ PageRequests(t) = {}
                  /\ hist[t].produced = <<>>
                  /\ hist[t].saved = <<>>
                  /\ hist[t].sent = <<>>
                  /\ results = <<>>

\* A run for a URL outside the catalog is over and returned False.
C23_NotFoundRunOver ==
    \E t \in Tasks :
        /\ RunOver(t)
        /\ ~InCatalog(task[t].url)
        /\ catalog_data # None
        /\ task[t].ret = "False"

\* ------------------------------------------------- the descriptor
\* C24: a descriptor that find_category_by_url returns has a shard and a
\* query fragment, neither of them None.
C24_DescriptorHasShardAndQuery ==
    (Resolved /\ rs_result.kind = "return" /\ rs_result.val # None) =>
        /\ rs_result.val.shard # NoneStr
        /\ rs_result.val.query # NoneStr

\* ------------------------------------------------- what the user sees
\* The pages of the run whose listing request was answered, in order.
RECURSIVE FetchedPages(_)
FetchedPages(reqs) ==
    IF reqs = <<>> THEN <<>>
    ELSE (IF Head(reqs).msg = "page" /\ Head(reqs).n = 200 THEN <<Head(reqs).page>> ELSE <<>>)
         \o FetchedPages(Tail(reqs))

\* C25: when a run is over, the log message of its user shows one line per
\* listing page that was fetched, in page order; and when the handler is
\* done with the run, the user has been told that the run was flushing or
\* that it finished (the log message carries no such line: the answer of
\* handle_text is the only notice there is).
C25_UserSeesEveryPageAndTheEnd ==
    /\ [](\A t \in Tasks :
            RunOver(t) =>
                /\ Len(hist[t].shown) = Len(FetchedPages(hist[t].reqs))
                /\ \A i \in DOMAIN hist[t].shown :
                      /\ hist[t].shown[i].msg = "page_received"
                      /\ hist[t].shown[i].page = FetchedPages(hist[t].reqs)[i])
    /\ [][\A t \in Tasks :
            (RunOver(t) /\ task[t].pc' = "idle") =>
                \/ \E i \in DOMAIN hist[t].shown :
                      hist[t].shown[i].msg \notin {"page_received"}
                \/ announced[t]' \in {"completed", "not_found"}]_vars

\* ------------------------------------------------- the batch report
AppReportOver == app.pc = "ended"

AppAllStatuses == {AppStatuses[i] : i \in DOMAIN AppStatuses}

\* C26: when a report of app.py is over, only the recipients chosen when
\* it began (the requester of /update, or the subscribers of that moment
\* for a scheduled run) have received anything from it; and when no call
\* failed, each of them who stayed subscribed has received every status
\* and the file.
C26_OnlyAndAllRecipients ==
    AppReportOver =>
        /\ \A v \in AppAdmins : app.job.received[v] # {} => v \in app.job.at_start
        /\ (app.job.raised_at = 0 /\ ~app.job.send_failed) =>
              \A v \in (IF app.job.single = NoneStr THEN app.job.stayed
                         ELSE {app.job.single}) :
                  app.job.received[v] = AppAllStatuses \cup {"file"}

\* The calls of the stages, in the order of the pipeline.
AppPipeline == <<"get_categories", "hierarchy", "evirma", "merge", "save">>

\* C27: in a report of app.py the statistics service is called at most
\* once, with the non-empty SEO terms of the hierarchy, after the
\* extraction and before merge and save; when a stage raised, the stages
\* after it did not run, nobody got the file, and the report ended with
\* the error status instead of an exception leaving it.
C27_OneCallAndFailureReported ==
    AppReportOver =>
        /\ Len(app.job.calls) <= 1
        /\ IsPrefix(SelectSeq(app.job.ran, LAMBDA k : k \in {"get_categories", "hierarchy", "evirma", "merge", "save"}),
                    AppPipeline)
        /\ app.job.outcome = "finished" =>
              /\ Len(app.job.calls) = 1
              /\ app.job.calls[1] = seo_keywords(app.job.hierarchy)
        /\ app.job.raised_at # 0 =>
              /\ \A v \in AppAdmins : "file" \notin app.job.received[v]
              /\ "merge" \in {app.job.ran[i] : i \in DOMAIN app.job.ran}
                    => AppStatuses[app.job.raised_at] = "save"
              /\ app.job.outcome = "reported"

\* ------------------------------------------------------------- C28
MbRunOver == mb.pc = "handler_tail"

MbStatusSent(text) ==
    \E i \in DOMAIN mb.run.statuses : mb.run.statuses[i].text = text

MbRequested(msg, n) ==
    \E i \in DOMAIN mb.run.reqs : mb.run.reqs[i].msg = msg /\ mb.run.reqs[i].n = n

\* C28 (as stated): in the bot of main.py, a report in which a listing
\* page was answered with HTTP 429 tells the user that the maximum of items
\* was parsed, tells of no error, and returns True.
C28_PageRateLimitIsExhaustion ==
    (MbRunOver /\ MbRequested("page", 429)) =>
        /\ MbStatusSent("max_products_parsed")
        /\ ~MbStatusSent("parsing_error")
        /\ mb.run.ret = "True"

\* ------------------------------------------------------------- C29
\* C29 (as stated): in the bot of main.py, a report that fetched a page
\* with at least one named product forwarded the line of that page to the
\* user's log message and went on to the enrichment call.
C29_FetchedPageIsEnriched ==
    (MbRunOver /\ \E i \in DOMAIN mb.run.named : mb.run.named[i] > 0) =>
        /\ \E i \in DOMAIN mb.run.reqs : mb.run.reqs[i].msg = "evirma"
        /\ \E i \in DOMAIN mb.run.shown :
              /\ "msg" \in DOMAIN mb.run.shown[i]
              /\ mb.run.shown[i].msg = "page_received"

\* ------------------------------------------------------------- C30
\* C30 (as stated): in the bot of main.py, after a flush of a non-empty
\* accumulator whose file was written, send_excel_to_user looks up the
\* written path, the document is sent unless the transport fails, and the
\* written file is the one scheduled for deletion.
C30_SentFileIsWrittenFile ==
    (/\ fl.pc = "done"
     /\ fl.op = "generate_and_send_report flush"
     /\ fl.data # <<>>
     /\ fl.out.written
     /\ fl.out.send_ok) =>
        /\ fl.out.looked_up = fl.out.written_path
        /\ fl.out.delivered
        /\ fl.out.delete_task = fl.out.written_path

\* ------------------------------------------------------------- C31
\* C31 (as stated): every run of the standalone parse_category starts with
\* an empty accumulator, and every file it saves holds only rows that this
\* run produced.
C31_RunStartsEmpty ==
    /\ sa_pc = "resolve" => sa_results = <<>>
    /\ \A i \in DOMAIN sa_run.saved :
          IsPrefix(sa_run.saved[i].rows, Flatten(sa_run.produced))

\* ------------------------------------------------------------- C32
\* The requests of the standalone run of this kind for this page.
SaAttempts(msg, page) ==
    {i \in DOMAIN sa_run.reqs : sa_run.reqs[i].msg = msg /\ sa_run.reqs[i].page = page}

\* Request i of the standalone run got no usable answer: a page fetch
\* failed with something else than status 429, or an enrichment call failed.
SaAttemptFailed(i) ==
    LET r == sa_run.reqs[i]
    IN  \/ r.msg = "page" /\ r.n \notin {200, 429}
        \/ r.msg = "evirma" /\ r.n # 200

SaSameCall(i, j) ==
    /\ sa_run.reqs[i].msg = sa_run.reqs[j].msg
    /\ sa_run.reqs[i].page = sa_run.reqs[j].page

\* C32: in the standalone parser a page is fetched at most RETRY_TRIES
\* times and enriched at most RETRY_TRIES times; a page fetch answered 429
\* is the last request of its run; a failed attempt is followed by another
\* attempt of the same call unless it was the third in a row, and then the
\* run prints the error.
C32_ThreeAttempts ==
    /\ \A msg \in {"page", "evirma"}, page \in 1..MaxPagesStandalone + 1 :
          Cardinality(SaAttempts(msg, page)) <= RETRY_TRIES
    /\ \A i \in DOMAIN sa_run.reqs :
          (sa_run.reqs[i].msg = "page" /\ sa_run.reqs[i].n = 429)
              => i = Len(sa_run.reqs)
    /\ \A i \in DOMAIN sa_run.reqs :
          (SaAttemptFailed(i) /\ i < Len(sa_run.reqs)) => SaSameCall(i, i + 1)
    /\ (sa_pc = "input" /\ sa_run.reqs # <<>> /\ SaAttemptFailed(Len(sa_run.reqs))) =>
          /\ Cardinality(SaAttempts(Last(sa_run.reqs).msg, Last(sa_run.reqs).page))
                = RETRY_TRIES
          /\ sa_run.out = <<"parsing_error", "total_time">>

\* A run that gave up after three failed fetches of page 1.
C32_GaveUpAfterThree ==
    /\ sa_pc = "input"
    /\ Len(sa_run.reqs) >= RETRY_TRIES + 1
    /\ \A i \in 2..RETRY_TRIES + 1 :
          sa_run.reqs[i].msg = "page" /\ sa_run.reqs[i].page = 1 /\ SaAttemptFailed(i)
    /\ sa_run.out = <<"parsing_error", "total_time">>

\* ------------------------------------------------------------- C33
\* C33: a deletion task that has run has returned, with a line in the log,
\* whether it deleted the file, found it missing or could not remove it;
\* and every send_excel_to_user that follows a save finds its file.
C33_DeletionNeverRaises ==
    /\ \A i \in DOMAIN dl.tasks :
          /\ dl.tasks[i].pc \in {"sleeping", "returned"}
          /\ dl.tasks[i].pc = "returned" =>
                dl.tasks[i].log \in {"file_deleted", "file_not_found_for_deletion",
                                     "failed_to_delete"}
    /\ \A i \in DOMAIN dl.sends : dl.sends[i].found
    /\ dl.pc = "sending" => dl.send.found

\* Two deletion tasks for the same path, one that deleted the file and one
\* that found it missing, and a third that could not remove its file.
C33_AllThreeEndings ==
    /\ \E i, j \in DOMAIN dl.tasks :
          /\ i # j
          /\ dl.tasks[i].path = dl.tasks[j].path
          /\ dl.tasks[i].log = "file_deleted"
          /\ dl.tasks[j].log = "file_not_found_for_deletion"
    /\ \E k \in DOMAIN dl.tasks :
          dl.tasks[k].log = "failed_to_delete" /\ dl.tasks[k].pc = "returned"

\* ------------------------------------------------------------- C34
\* The handler of task t goes on after a run that returned this value.
RunReturned(t, ret) == handler_tail(t) /\ task[t].ret = ret

IsCategoryUrl(text) ==
    Len(text) = 2 /\ text[1] = HOST /\ text[2] \in ThreeSegmentPaths

\* C35: a run is in progress only for a text that is a three-segment
\* category URL, it was started for a user who was in URL-input mode, and
\* every catalog, listing or statistics request is made by a run in
\* progress.
C35_RunsOnlyFromUrlInput ==
    /\ [](\A t \in Tasks :
             /\ task[t].pc # "idle" => IsCategoryUrl(task[t].url)
             /\ hist[t].reqs # <<>> => task[t].pc # "idle")
    /\ [][/\ \A t \in Tasks :
                (task[t].pc = "idle" /\ task'[t].pc # "idle")
                    => task'[t].user \in waiting_for_url
          /\ catalog_requests' # catalog_requests
                => \E t \in Tasks : task[t].pc # "idle" /\ cur = t]_vars

\* A run in progress has made a catalog request and a listing request.
C35_RunMadeRequests ==
    \E t \in Tasks :
        /\ task[t].pc # "idle"
        /\ \E i, j \in DOMAIN hist[t].reqs :
              hist[t].reqs[i].msg = "catalog" /\ hist[t].reqs[j].msg = "page"

\* ------------------------------------------------------------- C36
\* C36 (as stated): whatever the user of a run sends while it is in
\* progress, the handler that started a run that returned True ends
\* without raising, with the user out of URL-input mode and the completion
\* message sent.
C36_HandlerCompletes ==
    [][\A t \in Tasks :
          RunReturned(t, "True") =>
              /\ announced'[t] = "completed"
              /\ task[t].user \notin waiting_for_url']_vars

\* ------------------------------------------------------------- C37
\* C37 (as stated): a scheduled report of app.py in which no stage and no
\* send failed ends normally, and every user who was subscribed from its
\* start to its end has received the file, whatever /subscribe and
\* /unsubscribe commands were handled during its broadcasts.
C37_BroadcastSurvivesChanges ==
    (/\ AppReportOver
     /\ app.job.single = NoneStr
     /\ app.job.raised_at = 0
     /\ ~app.job.send_failed) =>
        /\ app.job.outcome = "finished"
        /\ \A v \in app.job.stayed : "file" \in app.job.received[v]

C39_BufferGoneAfterRun ==
    /\ [](\A u \in Users :
             /\ NoRunOf(u) => log_messages[u] = None
             /\ \A t \in Tasks :
                   (task[t].pc # "idle" /\ task[t].user = u /\ log_messages[u] # None)
                       => Len(log_messages[u].text) <= task[t].page)
    /\ [][\A t \in Tasks :
             /\ handler_tail(t) => log_messages'[task[t].user] = None
             /\ (update_log_message(t) /\ task[t].page = 1)
                   => log_messages[task[t].user] = None
             /\ (log_message_sent(t) /\ task[t].page = 1)
                   => log_messages'[task[t].user].text = <<task[t].log_message>>]_vars

\* The second run of the bot has sent its first progress line, and the
\* buffer holds that line only.
C39_SecondRunFreshLog ==
    /\ runs = 2
    /\ \E t \in Tasks :
          /\ task[t].pc # "idle"
          /\ task[t].page = 1
          /\ log_messages[task[t].user] # None
          /\ log_messages[task[t].user].text = <<task[t].log_message>>

\* ------------------------------------------------------------- C40
\* C40: every run of parse_category that has started reaches its return,
\* and it never is at a page above MAX_PAGES nor has made more than
\* MAX_PAGES page/enrich cycles.
C40_RunTerminates ==
    /\ \A t \in Tasks : (task[t].pc # "idle") ~> RunOver(t)
    /\ [](\A t \in Tasks :
             /\ task[t].page <= MAX_PAGES
             /\ Len(hist[t].produced) <= MAX_PAGES)

\* A run has returned after MAX_PAGES page/enrich cycles.
C40_ReturnedAfterAllPages ==
    \E t \in Tasks :
        /\ RunOver(t)
        /\ task[t].page = MAX_PAGES
        /\ Len(hist[t].produced) = MAX_PAGES

====
